---- MODULE Spec2Model ----
(***************************************************************************)
(* Engagement-events stream processor: the consume -> enrich -> fan-out -> *)
(* commit loop (src/src/stream_processor.py), the backfill replay, the     *)
(* warehouse sink (src/src/sinks/bigquery_sink.py) and the HTTP sink       *)
(* (src/src/sinks/external_sink.py).                                       *)
(*                                                                         *)
(* Optional[T] values are sequences of length <= 1: None is <<>>, a value  *)
(* v is <<v>>.                                                             *)
(***************************************************************************)
EXTENDS Integers, Sequences, FiniteSets, TLC

VARIABLES
    \* ---- environment of the coordinator
    log,            \* the topic partition: a sequence of raw JSON events
    mode,           \* args.mode: "stream" | "backfill"
    exactly_once,   \* settings.processing.enable_exactly_once
    \* ---- StreamProcessor
    pc,             \* position of the coordinator in run() / backfill_date_range()
    position,       \* consumer position: number of log records poll() has returned
    committed,      \* committed group offset: number of log records covered
    message_pack,   \* records of the last poll() not yet iterated (log indices)
    batch_buffer,   \* self.batch_buffer (log indices)
    crashed,        \* the process has crashed and restarted once
    processed_count,    \* self.processed_count
    error_count,        \* self.error_count
    residual_got,       \* log index -> the cleanup() calls ("run": line 234,
                        \* "main": line 397) that dispatched the record
    \* ---- what each sink was invoked with (log index -> number of invocations)
    redis_got,
    bq_got,
    http_got,
    \* ---- history of the enrichment
    handled,        \* indices enrich_event was called on
    store_down,     \* indices whose content lookup raised (store unreachable)
    commit_batch,   \* the batch the pending commit (pc = "commit") is for: its
                    \* indices, and whether a lookup of it found the store down
    crash_batch,    \* the survivors of the batch that was dispatched and not
                    \* yet committed when the process crashed
    \* ---- BackfillProcessor
    bf_start, bf_end,   \* [start_date, end_date)
    bf_limit,           \* settings.backfill.batch_size
    bf_offset,          \* OFFSET of the next page
    \* ---- ExternalSystemSink
    h_pc,               \* "new" | "idle" | "attempt" (inside send_event)
    h_client,           \* self.client is not None
    sent_count,         \* self.sent_count
    h_error_count,      \* self.error_count
    attempt_number,     \* tenacity's attempt number of the running call
    waited,             \* seconds slept between the attempts of the call
    responses,          \* outcome of each POST of the call: <<>> = network
                        \* error, <<status>> = HTTP response
    h_calls,            \* send_event calls started
    h_reachable,        \* the endpoint answered the health check of initialize()
    \* ---- ExternalSystemSink.send_batch
    b_pc,               \* "idle" | "fallback" (in the gather of lines 145-152)
                        \* | "returned"
    b_events,           \* len(events) of the call
    b_posts,            \* outcome of the batch POST, as in `responses`
    b_sends,            \* event of the list -> its individual send_event:
                        \* POSTs made, and "pending" | "returned" | "raised"
    \* ---- BigQuerySink
    w_pc,               \* "new" | "ready"
    bq_client,          \* self.client is not None
    bq_buffer,          \* self.batch_buffer: records [id, at] (at: append time)
    batch_start_time,   \* self.batch_start_time
    now,                \* datetime.utcnow(), in seconds since the sink was built
    bq_inserted,        \* ids of the rows of inserts that reported no failure
    bq_accepted,        \* ids of the records ever appended to the buffer
    w_calls,            \* add_to_batch calls made
    last_append,        \* the last append: buffer size and age of the oldest
                        \* record right after it, and whether it flushed
    \* ---- the add_to_batch tasks of one batch, statement by statement
    a_pc,               \* "idle" | "gather" | "flush" (the explicit flush of
                        \* process_batch is at its insert) | "flushed"
    a_pending,          \* survivors whose add_to_batch task has not run yet
    w_flushes,          \* the flush_batch calls that are at their insert: the
                        \* ids of rows_to_insert of each
    bq_rows,            \* ids of the rows of every insert call made
    \* ---- process_batch / process_event: the fan-out of one batch
    f_pc,               \* "idle" | "gather" | "commit" | "done"
    f_once,             \* settings.processing.enable_exactly_once, as read
                        \* after the batch
    f_tasks,            \* survivor -> sink -> state of that sink's coroutine
    f_processed,        \* survivors whose process_event has returned
    f_flush_calls,      \* bigquery_sink.flush_batch() calls made by process_batch
    f_commit_calls,     \* consumer.commit() calls made after the batch
    \* ---- EnrichedEngagementEvent(...) built on its own
    m_args,             \* the keyword arguments of the constructor call
    m_event,            \* the computed fields of the instance, once built
    m_record,           \* BigQueryRecord.from_enriched_event(instance)
    m_payload,          \* ExternalSystemPayload.from_enriched_event(instance).metadata
    \* ---- RedisSink and the aggregation store
    r_pc,               \* "new" | "ready" (initialize() has run, or has raised)
    r_client,           \* self.redis_client is not None
    r_store,            \* the store: key -> [val, exp]; exp: <<>> or <<deadline>>
    r_now,              \* time.time(), in seconds
    r_calls,            \* the process_event calls made: event, position, what
                        \* each wrote and whether it completed without error
    r_done,             \* content -> process_event calls run at once for it:
                        \* how many were made, how many completed without error
    r_expired           \* keys the store has dropped at their TTL deadline

coordVars == <<log, mode, exactly_once, pc, position, committed, message_pack,
               batch_buffer, crashed, redis_got, bq_got, http_got, handled,
               store_down, commit_batch, crash_batch, bf_start, bf_end, bf_limit,
               bf_offset, processed_count, error_count, residual_got>>

httpVars == <<h_pc, h_client, sent_count, h_error_count, attempt_number, waited,
              responses, h_calls, h_reachable>>

batchVars == <<b_pc, b_events, b_posts, b_sends>>

whVars == <<w_pc, bq_client, bq_buffer, batch_start_time, now, bq_inserted,
            bq_accepted, w_calls, last_append>>

raceVars == <<a_pc, a_pending, w_flushes, bq_rows>>

fanVars == <<f_pc, f_once, f_tasks, f_processed, f_flush_calls, f_commit_calls>>

modelVars == <<m_args, m_event, m_record, m_payload>>

rdVars == <<r_pc, r_client, r_store, r_now, r_calls, r_done, r_expired>>

vars == <<coordVars, httpVars, batchVars, whVars, raceVars, fanVars, modelVars,
          rdVars>>

\* The coordinator but for its processed_count.
coordButProcessed == <<log, mode, exactly_once, pc, position, committed,
                       message_pack, batch_buffer, crashed, redis_got, bq_got,
                       http_got, handled, store_down, commit_batch, crash_batch,
                       bf_start, bf_end, bf_limit, bf_offset, error_count,
                       residual_got>>

\* What an action of one component leaves alone.
notCoordVars == <<httpVars, batchVars, whVars, raceVars, fanVars, modelVars, rdVars>>
notHttpVars == <<coordVars, batchVars, whVars, raceVars, fanVars, modelVars, rdVars>>
notWhVars == <<coordVars, httpVars, batchVars, raceVars, fanVars, modelVars, rdVars>>
notFanVars == <<coordVars, httpVars, batchVars, whVars, raceVars, modelVars, rdVars>>
notModelVars == <<coordVars, httpVars, batchVars, whVars, raceVars, fanVars, rdVars>>
notRdVars == <<coordVars, httpVars, batchVars, whVars, raceVars, fanVars, modelVars>>
notBatchVars == <<coordVars, whVars, raceVars, fanVars, modelVars, rdVars>>
notRaceVars == <<coordVars, httpVars, batchVars, fanVars, modelVars, rdVars>>

----------------------------------------------------------------------------
(* Bounds *)

LogLen == 2             \* records in the log / rows in engagement_events
MaxPoll == 2            \* settings.kafka.max_poll_records, scaled down
BatchSize == 2          \* settings.processing.batch_size, scaled down
MaxPageSize == 2        \* largest settings.backfill.batch_size tried
MaxSends == 2           \* send_event calls in a run of the HTTP sink
MaxBatch == 2           \* largest list send_batch is called with
bq_batch_size == 2      \* settings.bigquery.batch_size, scaled down
max_batch_time_seconds == 2  \* settings.bigquery.max_batch_time_seconds, scaled down
MaxTime == 4            \* seconds the warehouse sink's clock runs
MaxAppends == 3         \* add_to_batch calls in a run of the warehouse sink
MaxFan == 2             \* survivors of the batch that is fanned out
MaxTasks == 3           \* add_to_batch tasks of the batch run statement by statement
MaxDurationMs == 40     \* every duration_ms from 0 to this is tried
MaxLengthSeconds == 3   \* every length_seconds from -1 to this is tried
MaxRdCalls == 2         \* process_event calls in a run of the leaderboard sink
MaxRdWrites == 3        \* process_event calls that all succeed, in a run over time
MaxRdClock == 2         \* seconds the leaderboard sink's clock runs
MaxRdFailures == 1      \* store commands that raise in a run of the sink
MaxLimit == 3           \* largest limit get_top_content is called with
aggregation_ttl_seconds == 2   \* settings.redis.aggregation_ttl_seconds, scaled down
aggregation_window_seconds == 2  \* settings.redis.aggregation_window_minutes * 60, scaled down

----------------------------------------------------------------------------
(* Small helpers *)

None == <<>>
Some(v) == <<v>>
Min(a, b) == IF a < b THEN a ELSE b
Range(s) == {s[i] : i \in DOMAIN s}

RECURSIVE SeqOfRange(_, _)
SeqOfRange(a, b) == IF a > b THEN <<>> ELSE <<a>> \o SeqOfRange(a + 1, b)

----------------------------------------------------------------------------
(* The content table and the raw events *)

\* content(id, slug, title, content_type, length_seconds): one known row.
content == [c1 |-> [slug |-> "v1", title |-> "Video 1", content_type |-> "video",
                    length_seconds |-> Some(300)]]

\* Raw JSON events as they may sit in the log.  has_duration: the key
\* "duration_ms" is present in the JSON object; duration_ms: its value.
RawEvents ==
    { [event_type |-> "play",  has_duration |-> TRUE,  duration_ms |-> Some(60000), content_id |-> "c1"],
      [event_type |-> "play",  has_duration |-> FALSE, duration_ms |-> None,        content_id |-> "c1"],
      [event_type |-> "play",  has_duration |-> TRUE,  duration_ms |-> None,        content_id |-> "c1"],
      [event_type |-> "click", has_duration |-> FALSE, duration_ms |-> None,        content_id |-> "c1"],
      [event_type |-> "play",  has_duration |-> TRUE,  duration_ms |-> Some(60000), content_id |-> "cX"],
      [event_type |-> "share", has_duration |-> TRUE,  duration_ms |-> Some(60000), content_id |-> "c1"] }

EventTypes == {"play", "pause", "finish", "click"}
DurationTypes == {"play", "pause", "finish"}

\* validate_duration(cls, v, values): TRUE when it returns v, FALSE when it raises.
validate_duration(v, event_type) ==
    ~(event_type \in DurationTypes /\ v = None)

\* EngagementEventModel(**raw_event): <<>> on ValidationError.  The
\* duration_ms validator is declared without always=True, so it runs only
\* when the key is supplied; an absent key takes the default None unchecked.
EngagementEventModel(id, raw) ==
    LET typeOk == raw.event_type \in EventTypes
        durOk  == IF raw.has_duration
                  THEN validate_duration(raw.duration_ms, raw.event_type)
                  ELSE TRUE
    IN  IF typeOk /\ durOk
        THEN Some([id |-> id, content_id |-> raw.content_id,
                   event_type |-> raw.event_type,
                   duration_ms |-> IF raw.has_duration THEN raw.duration_ms ELSE None])
        ELSE None

\* Mutant: the quotient is cut off instead of rounded.
decimal_round_truncating(num, den) == num \div den

\* round(Decimal, 2) on the exact quotient num / den (den > 0), counted in
\* units of the last kept digit: Decimal.__round__ with ndigits quantizes
\* with ROUND_HALF_EVEN.
decimal_round(num, den) ==
    LET q == num \div den
        r == num % den
    IN  IF 2 * r < den THEN q
        ELSE IF 2 * r > den THEN q + 1
        ELSE IF q % 2 = 0 THEN q ELSE q + 1

\* compute_engagement_seconds (lines 74-80), in hundredths of a second.  The
\* validator is pre=True, always=True: it runs whatever the caller passed
\* (v) and returns the computed value.
compute_engagement_seconds(v, duration_ms) ==
    IF duration_ms # None THEN Some(decimal_round(duration_ms[1], 10)) ELSE None

\* Mutant: the percentage is computed whenever engagement_seconds is there.
compute_engagement_pct_unguarded(v, engagement_seconds, length_seconds) ==
    IF engagement_seconds # None
    THEN IF length_seconds # None /\ length_seconds[1] > 0
         THEN Some(decimal_round(engagement_seconds[1] * 100, length_seconds[1]))
         ELSE Some(0)
    ELSE None

\* compute_engagement_pct (lines 82-90), in hundredths of a percent.
compute_engagement_pct(v, engagement_seconds, length_seconds) ==
    IF engagement_seconds # None /\ length_seconds # None /\ length_seconds[1] > 0
    THEN Some(decimal_round(engagement_seconds[1] * 100, length_seconds[1]))
    ELSE None

\* The two computed fields of an enriched event built from duration_ms and
\* length_seconds, the caller passing v_seconds and v_pct for them.
computed_fields(duration_ms, length_seconds, v_seconds, v_pct) ==
    LET es == compute_engagement_seconds(v_seconds, duration_ms) IN
    [engagement_seconds |-> es,
     engagement_pct |-> compute_engagement_pct(v_pct, es, length_seconds)]

\* Python truthiness of an Optional[Decimal]: None and 0 are false.
truthy(x) == x # None /\ x[1] # 0

\* float(x) if x else None (models.py lines 151-152, 190-191): a Decimal of
\* two decimals becomes the float of the same value (kept in hundredths),
\* None and a zero become None.
float_if(x) == IF truthy(x) THEN x ELSE None

\* BigQueryRecord.from_enriched_event (lines 141-159): the engagement columns.
BigQueryRecord_from_enriched_event(event) ==
    [engagement_seconds |-> float_if(event.engagement_seconds),
     engagement_pct |-> float_if(event.engagement_pct)]

\* ExternalSystemPayload.from_enriched_event (lines 177-194): the engagement
\* entries of metadata.
ExternalSystemPayload_from_enriched_event(event) ==
    [engagement_seconds |-> float_if(event.engagement_seconds),
     engagement_pct |-> float_if(event.engagement_pct)]

\* Mutant: slug, title and content_type declared Optional[str].
EnrichedEngagementEvent_optional_meta(id, content_id, event_type, duration_ms, slug, title, content_type, length_seconds) ==
    Some([id |-> id, content_id |-> content_id, event_type |-> event_type,
          duration_ms |-> duration_ms, slug |-> slug, title |-> title,
          content_type |-> content_type, length_seconds |-> length_seconds,
          engagement_seconds |-> computed_fields(duration_ms, length_seconds, None, None).engagement_seconds,
          engagement_pct |-> computed_fields(duration_ms, length_seconds, None, None).engagement_pct])

\* EnrichedEngagementEvent(...): slug, title and content_type are required
\* str fields, so a None there is a ValidationError (<<>>).
EnrichedEngagementEvent(id, content_id, event_type, duration_ms, slug, title, content_type, length_seconds) ==
    IF slug = None \/ title = None \/ content_type = None
    THEN None
    ELSE Some([id |-> id, content_id |-> content_id, event_type |-> event_type,
               duration_ms |-> duration_ms, slug |-> slug[1], title |-> title[1],
               content_type |-> content_type[1], length_seconds |-> length_seconds,
               engagement_seconds |-> computed_fields(duration_ms, length_seconds, None, None).engagement_seconds,
               engagement_pct |-> computed_fields(duration_ms, length_seconds, None, None).engagement_pct])

\* SELECT ... FROM content WHERE id = :content_id; result.first()
content_row(content_id) ==
    IF content_id \in DOMAIN content THEN Some(content[content_id]) ELSE None

\* StreamProcessor.enrich_event: <<>> is the Python None.  storeUp = FALSE:
\* session.execute raises, and the except clause returns None.
enrich_event(id, raw, storeUp) ==
    LET ev == EngagementEventModel(id, raw) IN
    IF ev = None THEN None
    ELSE IF ~storeUp THEN None
    ELSE LET row == content_row(ev[1].content_id) IN
         IF row = None THEN None
         ELSE EnrichedEngagementEvent(ev[1].id, ev[1].content_id, ev[1].event_type,
                                      ev[1].duration_ms, Some(row[1].slug),
                                      Some(row[1].title), Some(row[1].content_type),
                                      row[1].length_seconds)

\* The lookup is reached (and can find the store unreachable) only for
\* events that passed validation.
ReachesStore(id, raw) == EngagementEventModel(id, raw) # None

\* process_batch, lines 162-168: the enriched survivors of a batch, in order.
RECURSIVE enriched_events(_, _, _)
enriched_events(events, lg, down) ==
    IF events = <<>> THEN <<>>
    ELSE enrich_event(Head(events), lg[Head(events)], Head(events) \notin down)
         \o enriched_events(Tail(events), lg, down)

\* One sink invoked once for every event of a list.
RECURSIVE Invoke(_, _)
Invoke(got, events) ==
    IF events = <<>> THEN got
    ELSE Invoke([got EXCEPT ![Head(events).id] = @ + 1], Tail(events))

\* process_event, lines 127-133: the three sink coroutines of one event are
\* gathered; here, which sinks are invoked for the events of a batch.
process_event_redis(got, events) == Invoke(got, events)
process_event_bq(got, events)    == Invoke(got, events)
process_event_http(got, events)  == Invoke(got, events)

\* The content store is reachable for a whole batch, or unreachable for it.
Outages(events) == {{}, Range(events)}

\* process_batch(events) with the store unreachable for the lookups of `down`;
\* process_event counts each survivor as processed (line 138).
process_batch(events, down) ==
    LET survivors == enriched_events(events, log, down)
        asked     == {i \in Range(events) : ReachesStore(i, log[i])}
    IN  /\ redis_got' = process_event_redis(redis_got, survivors)
        /\ bq_got'    = process_event_bq(bq_got, survivors)
        /\ http_got'  = process_event_http(http_got, survivors)
        /\ handled'   = handled \cup Range(events)
        /\ store_down' = store_down \cup (down \cap asked)
        /\ processed_count' = processed_count + Len(survivors)

----------------------------------------------------------------------------
(* StreamProcessor.run *)

NoBatch == [events |-> {}, outage |-> FALSE]

\* After a message (or a commit): back to the for loop, or to the next poll.
NextPc(pack) == IF pack = <<>> THEN "poll" ELSE "pack"

\* consumer.poll() returned records: they become the message pack and the
\* consumer's position moves past all of them.
PollRecords ==
    /\ mode = "stream" /\ pc = "poll"
    /\ \E n \in 1..Min(MaxPoll, Len(log) - position) :
        /\ message_pack' = SeqOfRange(position + 1, position + n)
        /\ position' = position + n
    /\ pc' = "pack"
    /\ UNCHANGED <<residual_got, processed_count, error_count, crash_batch, log, mode, exactly_once, committed, batch_buffer, crashed,
                   redis_got, bq_got, http_got, handled, store_down, commit_batch,
                   bf_start, bf_end, bf_limit, bf_offset>>
    /\ UNCHANGED notCoordVars

\* consumer.poll() returned nothing (lines 192-200): time-based flush of the
\* pending buffer, without a commit.
PollEmpty ==
    /\ mode = "stream" /\ pc = "poll"
    /\ \E elapsed \in BOOLEAN :
        IF elapsed /\ batch_buffer # <<>>
        THEN \E down \in Outages(batch_buffer) :
                /\ process_batch(batch_buffer, down)
                /\ batch_buffer' = <<>>
        ELSE UNCHANGED <<processed_count, batch_buffer, redis_got, bq_got, http_got, handled,
                         store_down>>
    /\ UNCHANGED <<residual_got, error_count, crash_batch, log, mode, exactly_once, pc, position, committed, message_pack,
                   crashed, commit_batch, bf_start, bf_end, bf_limit, bf_offset>>
    /\ UNCHANGED notCoordVars

\* One iteration of the for loop over the message pack (lines 204-219).
HandleMessage ==
    /\ mode = "stream" /\ pc = "pack" /\ message_pack # <<>>
    /\ LET buf == Append(batch_buffer, Head(message_pack)) IN
       \E elapsed \in BOOLEAN :
        IF Len(buf) >= BatchSize \/ elapsed
        THEN \E down \in Outages(buf) :
                /\ process_batch(buf, down)
                /\ commit_batch' = IF exactly_once
                                   THEN [events |-> Range(buf),
                                         outage |-> \E i \in down : ReachesStore(i, log[i])]
                                   ELSE NoBatch
                /\ batch_buffer' = <<>>
                /\ pc' = IF exactly_once THEN "commit" ELSE NextPc(Tail(message_pack))
        ELSE /\ batch_buffer' = buf
             /\ pc' = NextPc(Tail(message_pack))
             /\ UNCHANGED <<processed_count, redis_got, bq_got, http_got, handled, store_down, commit_batch>>
    /\ message_pack' = Tail(message_pack)
    /\ UNCHANGED <<residual_got, error_count, crash_batch, log, mode, exactly_once, position, committed, crashed,
                   bf_start, bf_end, bf_limit, bf_offset>>
    /\ UNCHANGED notCoordVars

\* Mutant: the commit stops one record short of the consumer's position.
commit_offset_short(pos, cmt) == IF pos - 1 > cmt THEN pos - 1 ELSE cmt

\* consumer.commit() with no argument (line 223) commits the consumer's
\* position, i.e. everything poll() has returned.
commit_offset(pos, cmt) == pos

\* Lines 222-227: the commit, or a KafkaError caught by the except clause,
\* which counts an error.
Commit ==
    /\ mode = "stream" /\ pc = "commit"
    /\ \E ok \in BOOLEAN :
        /\ committed' = IF ok THEN commit_offset(position, committed) ELSE committed
        /\ error_count' = IF ok THEN error_count ELSE error_count + 1
    /\ pc' = NextPc(message_pack)
    /\ commit_batch' = NoBatch
    /\ UNCHANGED <<residual_got, processed_count, crash_batch, log, mode, exactly_once, position, message_pack, batch_buffer,
                   crashed, redis_got, bq_got, http_got, handled, store_down,
                   bf_start, bf_end, bf_limit, bf_offset>>
    /\ UNCHANGED notCoordVars

\* The process dies anywhere in the loop and is started again: the memory
\* (message pack, batch buffer, counters) is lost, the new consumer resumes from the
\* committed offset (auto_offset_reset = earliest when there is none).
CrashRestart ==
    /\ mode = "stream" /\ pc \in {"poll", "pack", "commit"} /\ ~crashed
    /\ crashed' = TRUE
    /\ message_pack' = <<>>
    /\ batch_buffer' = <<>>
    /\ position' = committed
    /\ pc' = "poll"
    /\ crash_batch' = IF pc = "commit"
                      THEN {i \in commit_batch.events : bq_got[i] > 0}
                      ELSE {}
    /\ commit_batch' = NoBatch
    /\ processed_count' = 0
    /\ error_count' = 0
    /\ UNCHANGED <<residual_got, log, mode, exactly_once, committed, redis_got, bq_got, http_got,
                   handled, store_down, bf_start, bf_end, bf_limit, bf_offset>>
    /\ UNCHANGED notCoordVars

----------------------------------------------------------------------------
(* Shutdown: the end of run() and StreamProcessor.cleanup *)

\* The records of a batch that a cleanup() call dispatched.
Residual(got, survivors, call) ==
    [i \in DOMAIN got |->
        IF \E k \in DOMAIN survivors : survivors[k].id = i
        THEN got[i] \cup {call} ELSE got[i]]

\* cleanup() (lines 236-257): the batch buffer, when it holds records, is
\* processed and left as it is; then the sinks, the consumer and the engine
\* are closed.
cleanup(call) ==
    IF batch_buffer # <<>>
    THEN \E down \in Outages(batch_buffer) :
            /\ process_batch(batch_buffer, down)
            /\ residual_got' = Residual(residual_got,
                                        enriched_events(batch_buffer, log, down), call)
    ELSE UNCHANGED <<redis_got, bq_got, http_got, handled, store_down,
                     processed_count, residual_got>>

\* The loop of run() is left (an interrupt, or an exception outside the
\* for loop's try), and the finally clause of run() calls cleanup (line 234).
RunExit ==
    /\ mode = "stream" /\ pc \in {"poll", "pack", "commit"}
    /\ cleanup("run")
    /\ message_pack' = <<>>
    /\ commit_batch' = NoBatch
    /\ pc' = "closed"
    /\ UNCHANGED <<log, mode, exactly_once, position, committed, batch_buffer,
                   crashed, crash_batch, error_count, bf_start, bf_end, bf_limit,
                   bf_offset>>
    /\ UNCHANGED notCoordVars

\* Back in main(), whose finally clause calls cleanup again (line 397).
MainCleanup ==
    /\ mode = "stream" /\ pc = "closed"
    /\ cleanup("main")
    /\ pc' = "stopped"
    /\ UNCHANGED <<log, mode, exactly_once, position, committed, message_pack,
                   batch_buffer, crashed, crash_batch, commit_batch, error_count,
                   bf_start, bf_end, bf_limit, bf_offset>>
    /\ UNCHANGED notCoordVars

----------------------------------------------------------------------------
(* BackfillProcessor.backfill_date_range *)

\* event_ts of row i of engagement_events; rows may share a timestamp.
event_ts(i) == (i + 1) \div 2

\* The dates --start-date / --end-date are drawn from.
Dates == {event_ts(i) : i \in 1..LogLen} \cup {event_ts(LogLen) + 1}

InRange(i) == bf_start <= event_ts(i) /\ event_ts(i) < bf_end

\* The result orders ORDER BY ee.event_ts allows for the rows in range.
Orderings ==
    LET rows == {i \in 1..Len(log) : InRange(i)} IN
    {s \in [1..Cardinality(rows) -> rows] :
        /\ \A a, b \in DOMAIN s : a # b => s[a] # s[b]
        /\ \A a, b \in DOMAIN s : a < b => event_ts(s[a]) <= event_ts(s[b])}

\* LIMIT :limit OFFSET :offset over one such order.
Page(order, offset, limit) ==
    SubSeq(order, offset + 1, Min(offset + limit, Len(order)))

\* Lines 320-338: a row of the LEFT JOIN becomes an enriched event, or the
\* constructor raises and the row is skipped.
RECURSIVE rows_to_enriched(_, _)
rows_to_enriched(rows, lg) ==
    IF rows = <<>> THEN <<>>
    ELSE LET i == Head(rows)
             c == content_row(lg[i].content_id)
         IN  EnrichedEngagementEvent(
                 i, lg[i].content_id, lg[i].event_type, lg[i].duration_ms,
                 IF c = None THEN None ELSE Some(c[1].slug),
                 IF c = None THEN None ELSE Some(c[1].title),
                 IF c = None THEN None ELSE Some(c[1].content_type),
                 IF c = None THEN None ELSE c[1].length_seconds)
             \o rows_to_enriched(Tail(rows), lg)

\* Mutant: the offset moves on only past a page that produced events.
next_offset_if_processed(offset, limit, evs) ==
    IF evs = <<>> THEN offset ELSE offset + limit

\* offset += batch_size (line 349), after the if of line 341.
next_offset(offset, limit, evs) == offset + limit

\* Mutant: the page is committed the way a batch of the stream is.
committed_with_page(cmt, rows) == cmt + Len(rows)

\* The offsets committed once a page is processed (lines 340-349): the
\* tasks are gathered and the warehouse flushed, and consumer.commit() is
\* not called.
committed_after_page(cmt, rows) == cmt

\* One non-empty page (lines 296-352).
BackfillPage ==
    /\ mode = "backfill" /\ pc = "page"
    /\ \E order \in Orderings :
        LET rows == Page(order, bf_offset, bf_limit)
            evs  == rows_to_enriched(rows, log)
        IN  /\ rows # <<>>
            /\ redis_got' = process_event_redis(redis_got, evs)
            /\ bq_got'    = process_event_bq(bq_got, evs)
            /\ http_got'  = process_event_http(http_got, evs)
            /\ handled'   = handled \cup Range(rows)
            /\ processed_count' = processed_count + Len(evs)
            /\ bf_offset' = next_offset(bf_offset, bf_limit, evs)
            /\ committed' = committed_after_page(committed, rows)
    /\ UNCHANGED <<residual_got, error_count, crash_batch, log, mode, exactly_once, pc, position, message_pack,
                   batch_buffer, crashed, store_down, commit_batch, bf_start, bf_end,
                   bf_limit>>
    /\ UNCHANGED notCoordVars

\* The empty page: break, then the cleanup of the stream processor (lines
\* 315-316, 354-355), whose consumer.close() commits nothing
\* (enable_auto_commit is False, and the consumer has not polled).
BackfillEnd ==
    /\ mode = "backfill" /\ pc = "page"
    /\ \E order \in Orderings : Page(order, bf_offset, bf_limit) = <<>>
    /\ cleanup("backfill")
    /\ pc' = "exited"
    /\ UNCHANGED <<error_count, crash_batch, log, mode, exactly_once, position, committed, message_pack,
                   batch_buffer, crashed, commit_batch, bf_start, bf_end, bf_limit, bf_offset>>
    /\ UNCHANGED notCoordVars

----------------------------------------------------------------------------
(* ExternalSystemSink *)

\* @retry(stop=stop_after_attempt(3), wait=wait_exponential(multiplier=1, min=4, max=10))
StopAfterAttempt == 3
WaitMultiplier == 1
WaitMin == 4
WaitMax == 10

RECURSIVE Pow2(_)
Pow2(n) == IF n <= 0 THEN 1 ELSE 2 * Pow2(n - 1)
Max(a, b) == IF a > b THEN a ELSE b

\* tenacity.wait_exponential: the sleep after failed attempt number n.
wait_exponential(n) == Max(WaitMin, Min(WaitMultiplier * Pow2(n - 1), WaitMax))

\* What a POST can come to: a network error, or a response with a status.
Responses == {None, Some(200), Some(201), Some(202), Some(204), Some(500)}

\* Line 94: response.status_code in [200, 201, 202]
status_ok(status) == status \in {200, 201, 202}

\* tenacity's default retry condition: retry when the call raised.  The
\* body of send_event raises only from the except clause (line 112), i.e. on
\* a network error; a response with any status makes the call return.
call_raised(r) == r = None

\* _health_check (lines 53-69) inside initialize(): whether the client is
\* still there after it.  A failure of the GET is caught and logged as a
\* warning, so it never reaches the except clause of initialize().
_health_check(built, reachable) == built

\* initialize(): the client is dropped only when building it raises; the
\* health check swallows its own failure (lines 58-69).
HttpInitialize ==
    /\ h_pc = "new"
    /\ \E built \in BOOLEAN, reachable \in BOOLEAN :
        /\ h_client' = _health_check(built, reachable)
        /\ h_reachable' = reachable
    /\ h_pc' = "idle"
    /\ UNCHANGED <<sent_count, h_error_count, attempt_number, waited, responses, h_calls>>
    /\ UNCHANGED notHttpVars

\* send_event(event) is called: tenacity starts attempt 1.
SendEvent ==
    /\ h_pc = "idle" /\ h_calls < MaxSends
    /\ h_calls' = h_calls + 1
    /\ attempt_number' = 1
    /\ waited' = 0
    /\ responses' = <<>>
    /\ h_pc' = "attempt"
    /\ UNCHANGED <<h_client, sent_count, h_error_count, h_reachable>>
    /\ UNCHANGED notHttpVars

\* One execution of the body of send_event (lines 78-112), and what
\* tenacity does with its outcome: return, sleep and retry, or reraise.
HttpAttempt ==
    /\ h_pc = "attempt"
    /\ IF ~h_client
       THEN /\ h_pc' = "idle"
            /\ UNCHANGED <<sent_count, h_error_count, attempt_number, waited, responses>>
       ELSE \E r \in Responses :
            /\ responses' = Append(responses, r)
            /\ sent_count' = IF r # None /\ status_ok(r[1])
                             THEN sent_count + 1 ELSE sent_count
            /\ h_error_count' = IF r # None /\ status_ok(r[1])
                                THEN h_error_count ELSE h_error_count + 1
            /\ IF call_raised(r) /\ attempt_number < StopAfterAttempt
               THEN /\ waited' = waited + wait_exponential(attempt_number)
                    /\ attempt_number' = attempt_number + 1
                    /\ h_pc' = "attempt"
               ELSE /\ h_pc' = "idle"
                    /\ UNCHANGED <<attempt_number, waited>>
    /\ UNCHANGED <<h_client, h_calls, h_reachable>>
    /\ UNCHANGED notHttpVars

\* ExternalSystemSink.__init__
HttpNew ==
    /\ h_pc = "new"
    /\ h_client = FALSE
    /\ sent_count = 0
    /\ h_error_count = 0
    /\ attempt_number = 0
    /\ waited = 0
    /\ responses = <<>>
    /\ h_calls = 0
    /\ h_reachable = TRUE
    /\ b_pc = "idle"
    /\ b_events = 0
    /\ b_posts = <<>>
    /\ b_sends = <<>>

----------------------------------------------------------------------------
(* ExternalSystemSink.send_batch *)

\* Mutant: a batch POST that raises is not followed by the individual sends.
falls_back_on_status(r) == r # None /\ ~status_ok(r[1])

\* Lines 142-152: the individual sends follow a status outside the list of
\* line 139 (else branch) and an exception (except clause).
falls_back(r) == ~(r # None /\ status_ok(r[1]))

\* send_batch(events) up to the end of the batch POST (lines 116-141), and
\* the send_event coroutines created for the fallback (lines 145, 151).
SendBatch ==
    /\ h_pc = "idle" /\ b_pc = "idle"
    /\ \E n \in 0..MaxBatch :
        /\ b_events' = n
        /\ b_sends' = [k \in 1..n |-> [posts |-> 0, state |-> "pending"]]
        /\ IF ~h_client \/ n = 0
           THEN /\ b_pc' = "returned"
                /\ UNCHANGED <<b_posts, sent_count>>
           ELSE \E r \in Responses :
                /\ b_posts' = <<r>>
                /\ sent_count' = IF r # None /\ status_ok(r[1])
                                 THEN sent_count + n ELSE sent_count
                /\ b_pc' = IF falls_back(r) THEN "fallback" ELSE "returned"
    /\ UNCHANGED <<h_pc, h_client, h_error_count, attempt_number, waited,
                   responses, h_calls, h_reachable>>
    /\ UNCHANGED notBatchVars

\* One execution of the body of send_event (lines 78-112) for one event of
\* the fallback, under the retry decorator; the coroutines are gathered
\* with return_exceptions=True, so each runs whatever the others come to.
BatchSendAttempt ==
    /\ b_pc = "fallback"
    /\ \E k \in DOMAIN b_sends : \E r \in Responses :
        /\ b_sends[k].state = "pending"
        /\ sent_count' = IF r # None /\ status_ok(r[1])
                         THEN sent_count + 1 ELSE sent_count
        /\ h_error_count' = IF r # None /\ status_ok(r[1])
                            THEN h_error_count ELSE h_error_count + 1
        /\ b_sends' = [b_sends EXCEPT ![k] =
              [posts |-> @.posts + 1,
               state |-> IF ~call_raised(r) THEN "returned"
                         ELSE IF @.posts + 1 < StopAfterAttempt THEN "pending"
                         ELSE "raised"]]
    /\ UNCHANGED <<b_pc, b_events, b_posts>>
    /\ UNCHANGED <<h_pc, h_client, attempt_number, waited, responses, h_calls,
                   h_reachable>>
    /\ UNCHANGED notBatchVars

\* The gather of the fallback is over: send_batch returns.
BatchReturn ==
    /\ b_pc = "fallback"
    /\ \A k \in DOMAIN b_sends : b_sends[k].state # "pending"
    /\ b_pc' = "returned"
    /\ UNCHANGED <<b_events, b_posts, b_sends>>
    /\ UNCHANGED httpVars
    /\ UNCHANGED notBatchVars

----------------------------------------------------------------------------
(* BigQuerySink *)

\* What client.insert_rows_json can come to: no error, a non-empty list of
\* row errors (no row of the request is stored), or an exception.
InsertOutcomes == {"ok", "errors", "raise"}

Ids(buffer) == {buffer[k].id : k \in DOMAIN buffer}

\* Mutant: flush_batch returns without calling the insert.
flush_batch_skipped(sink, t, outcome) == sink

\* flush_batch (lines 152-191) on a sink [client, buffer, start, inserted,
\* rows] at time t, the insert coming to `outcome`; rows: the ids handed to
\* insert_rows_json so far.
flush_batch(sink, t, outcome) ==
    IF ~sink.client \/ sink.buffer = <<>> THEN sink
    ELSE IF outcome = "raise" THEN [sink EXCEPT !.rows = @ \cup Ids(sink.buffer)]
    ELSE [sink EXCEPT !.buffer = <<>>,
                      !.start = t,
                      !.inserted = IF outcome = "ok" THEN @ \cup Ids(sink.buffer) ELSE @,
                      !.rows = @ \cup Ids(sink.buffer)]

\* Lines 141-144: the flush trigger of add_to_batch.
should_flush(buffer, start, t) ==
    Len(buffer) >= bq_batch_size \/ (t - start) > max_batch_time_seconds

\* Mutant: the record is appended whether or not there is a client.
add_to_batch_unguarded(sink, id, t, outcome) ==
    LET appended == [sink EXCEPT !.buffer = Append(@, [id |-> id, at |-> t])] IN
    IF should_flush(appended.buffer, appended.start, t)
    THEN flush_batch(appended, t, outcome)
    ELSE appended

\* add_to_batch (lines 130-150) of event `id` at time t.
add_to_batch(sink, id, t, outcome) ==
    IF ~sink.client THEN sink
    ELSE LET appended == [sink EXCEPT !.buffer = Append(@, [id |-> id, at |-> t])] IN
         IF should_flush(appended.buffer, appended.start, t)
         THEN flush_batch(appended, t, outcome)
         ELSE appended

TheSink == [client |-> bq_client, buffer |-> bq_buffer, start |-> batch_start_time,
            inserted |-> bq_inserted, rows |-> bq_rows]

SetSink(sink) ==
    /\ bq_buffer' = sink.buffer
    /\ batch_start_time' = sink.start
    /\ bq_inserted' = sink.inserted

\* initialize(): the client is dropped when building it or the bootstrap raises.
WhInitialize ==
    /\ w_pc = "new"
    /\ \E ok \in BOOLEAN : bq_client' = ok
    /\ w_pc' = "ready"
    /\ UNCHANGED <<bq_buffer, batch_start_time, now, bq_inserted, bq_accepted,
                   w_calls, last_append>>
    /\ UNCHANGED notWhVars

\* add_to_batch(event) is called.
WhAppend ==
    /\ w_pc = "ready" /\ w_calls < MaxAppends
    /\ w_calls' = w_calls + 1
    /\ \E outcome \in InsertOutcomes :
        LET id == w_calls + 1
            buf == Append(bq_buffer, [id |-> id, at |-> now])
        IN  /\ SetSink(add_to_batch(TheSink, id, now, outcome))
            /\ bq_accepted' = IF bq_client THEN bq_accepted \cup {id} ELSE bq_accepted
            /\ last_append' =
                 IF bq_client
                 THEN Some([size |-> Len(buf), oldest_age |-> now - buf[1].at,
                            flushed |-> should_flush(buf, batch_start_time, now)])
                 ELSE last_append
    /\ UNCHANGED <<w_pc, bq_client, now>>
    /\ UNCHANGED notWhVars

\* flush_batch() called from outside add_to_batch (process_batch, line 180).
WhFlush ==
    /\ w_pc = "ready"
    /\ \E outcome \in InsertOutcomes : SetSink(flush_batch(TheSink, now, outcome))
    /\ UNCHANGED <<w_pc, bq_client, now, bq_accepted, w_calls, last_append>>
    /\ UNCHANGED notWhVars

\* A second passes.
Tick ==
    /\ w_pc = "ready" /\ now < MaxTime
    /\ now' = now + 1
    /\ UNCHANGED <<w_pc, bq_client, bq_buffer, batch_start_time, bq_inserted,
                   bq_accepted, w_calls, last_append>>
    /\ UNCHANGED notWhVars

\* BigQuerySink.__init__
WhNew ==
    /\ w_pc = "new"
    /\ bq_client = FALSE
    /\ bq_buffer = <<>>
    /\ batch_start_time = 0
    /\ now = 0
    /\ bq_inserted = {}
    /\ bq_accepted = {}
    /\ w_calls = 0
    /\ last_append = None
    /\ a_pc = "idle"
    /\ a_pending = {}
    /\ w_flushes = <<>>
    /\ bq_rows = {}

----------------------------------------------------------------------------
(* The add_to_batch tasks of one batch and the flushes, statement by
   statement *)

\* Mutant: the insert is awaited, so the event loop runs other coroutines
\* while a flush is at its insert.
insert_awaited == TRUE

\* Whether a flush_batch at its insert lets other coroutines run.
\* client.insert_rows_json (lines 174-178) is an ordinary blocking call:
\* flush_batch has no await in it, and `await self.flush_batch()` (line 147)
\* runs it without going back to the event loop.
insert_yields == FALSE

\* Another coroutine can run now.
CanRun == w_flushes = <<>> \/ insert_yields

\* flush_batch up to its insert (lines 154-171): the flushes at their
\* insert, with this one added when there is a client and a buffer.
flush_begins(flushes, client, buffer) ==
    IF ~client \/ buffer = <<>> THEN flushes ELSE Append(flushes, Ids(buffer))

\* process_batch has created the add_to_batch tasks of k survivors (through
\* process_event, lines 127-133 and 176-177).
RaceProcessBatch ==
    /\ a_pc = "idle" /\ w_pc = "ready"
    /\ \E k \in 1..MaxTasks : a_pending' = 1..k
    /\ a_pc' = "gather"
    /\ UNCHANGED <<w_flushes, bq_rows>>
    /\ UNCHANGED whVars
    /\ UNCHANGED notRaceVars

\* The add_to_batch task of one survivor runs (lines 132-147): the record
\* is appended and, on the size or the age trigger, flush_batch is entered
\* and runs to its insert.
RaceAppend ==
    /\ a_pc = "gather" /\ CanRun
    /\ \E e \in a_pending :
        LET buf == Append(bq_buffer, [id |-> e, at |-> now]) IN
        /\ a_pending' = a_pending \ {e}
        /\ IF ~bq_client
           THEN UNCHANGED <<bq_buffer, bq_accepted, w_flushes>>
           ELSE /\ bq_buffer' = buf
                /\ bq_accepted' = bq_accepted \cup {e}
                /\ w_flushes' = IF should_flush(buf, batch_start_time, now)
                                THEN flush_begins(w_flushes, bq_client, buf)
                                ELSE w_flushes
    /\ UNCHANGED <<a_pc, bq_rows>>
    /\ UNCHANGED <<w_pc, bq_client, batch_start_time, now, bq_inserted, w_calls,
                   last_append>>
    /\ UNCHANGED notRaceVars

\* The gather of the batch is over (every task has returned): process_batch
\* calls flush_batch (line 180), which runs to its insert or returns at
\* once.
RaceExplicitFlush ==
    /\ a_pc = "gather" /\ a_pending = {} /\ w_flushes = <<>>
    /\ w_flushes' = flush_begins(w_flushes, bq_client, bq_buffer)
    /\ a_pc' = IF flush_begins(w_flushes, bq_client, bq_buffer) = <<>>
               THEN "flushed" ELSE "flush"
    /\ UNCHANGED <<a_pending, bq_rows>>
    /\ UNCHANGED whVars
    /\ UNCHANGED notRaceVars

\* The insert of a flush_batch returns or raises, and the flush goes on to
\* its end (lines 174-191): the buffer is cleared unless the insert raised.
RaceInsertReturns ==
    /\ \E i \in DOMAIN w_flushes : \E outcome \in InsertOutcomes :
        /\ bq_rows' = bq_rows \cup w_flushes[i]
        /\ SetSink(flush_batch(TheSink, now, outcome))
        /\ w_flushes' = SubSeq(w_flushes, 1, i - 1)
                        \o SubSeq(w_flushes, i + 1, Len(w_flushes))
    /\ a_pc' = IF a_pc = "flush" THEN "flushed" ELSE a_pc
    /\ UNCHANGED a_pending
    /\ UNCHANGED <<w_pc, bq_client, now, bq_accepted, w_calls, last_append>>
    /\ UNCHANGED notRaceVars

----------------------------------------------------------------------------
(* process_batch / process_event: the fan-out of the survivors of a batch *)

Sinks == {"redis", "bigquery", "external"}

\* How the coroutine of a sink can end for one event.  "ok": the write was
\* made (or skipped by a sink without client); "failed": the sink caught and
\* logged its own failure and returned; "raised": the exception left the
\* coroutine.  RedisSink.process_event (lines 64-78) and
\* BigQuerySink.add_to_batch (lines 136-150) catch every Exception;
\* ExternalSystemSink.send_event returns after counting a non-success status
\* and re-raises a network error once the attempts are used up.
TaskOutcomes(sink) ==
    IF sink = "external" THEN {"ok", "failed", "raised"} ELSE {"ok", "failed"}

\* Mutant: the tasks of an event are awaited as a group that is torn down on
\* the first exception (the siblings still pending are cancelled).
gather_cancel_on_error(tasks, e, sink, outcome) ==
    [tasks EXCEPT ![e] = [s \in Sinks |->
        IF s = sink THEN outcome
        ELSE IF outcome = "raised" /\ tasks[e][s] = "pending" THEN "cancelled"
        ELSE tasks[e][s]]]

\* asyncio.gather(*tasks, return_exceptions=True) (line 133): the outcome of
\* one task is collected, an exception as a result; the other tasks run on.
gather(tasks, e, sink, outcome) ==
    [tasks EXCEPT ![e][sink] = outcome]

Ended(tasks, e) == \A s \in Sinks : tasks[e][s] # "pending"

\* How the add_to_batch task of an event ends: "failed" when the flush it
\* triggered did not store the rows (the failure is logged inside the sink).
add_to_batch_outcome(sink, id, t, outcome) ==
    IF sink.client /\ outcome # "ok"
       /\ should_flush(Append(sink.buffer, [id |-> id, at |-> t]), sink.start, t)
    THEN "failed" ELSE "ok"

\* process_batch is entered with k survivors (lines 170-177), the sinks
\* having been initialised: one process_event task per survivor, each
\* gathering the three sink tasks.
FanProcessBatch ==
    /\ f_pc = "idle" /\ w_pc = "ready"
    /\ \E k \in 1..MaxFan : f_tasks' = [e \in 1..k |-> [s \in Sinks |-> "pending"]]
    /\ f_pc' = "gather"
    /\ UNCHANGED <<f_once, f_processed, f_flush_calls, f_commit_calls>>
    /\ UNCHANGED notFanVars

\* The coroutine of one sink ends for one event (the warehouse one is
\* add_to_batch on the sink); when it is the last of the three, the gather
\* of that event is over and process_event counts the event and returns
\* (lines 135-155).
FanTaskEnds ==
    /\ f_pc = "gather"
    /\ \E e \in DOMAIN f_tasks : \E s \in Sinks :
        /\ f_tasks[e][s] = "pending"
        /\ \E o \in TaskOutcomes(s) : \E ins \in InsertOutcomes :
            LET tasks == gather(f_tasks, e, s, o) IN
            /\ f_tasks' = tasks
            /\ f_processed' = IF Ended(tasks, e) THEN f_processed \cup {e}
                              ELSE f_processed
            /\ processed_count' = IF Ended(tasks, e) THEN processed_count + 1
                                  ELSE processed_count
            /\ IF s = "bigquery"
               THEN /\ o = add_to_batch_outcome(TheSink, e, now, ins)
                    /\ SetSink(add_to_batch(TheSink, e, now, ins))
                    /\ bq_rows' = add_to_batch(TheSink, e, now, ins).rows
                    /\ bq_accepted' = IF add_to_batch(TheSink, e, now, "raise").buffer # bq_buffer
                                      THEN bq_accepted \cup {e} ELSE bq_accepted
               ELSE /\ ins = "ok"
                    /\ UNCHANGED <<bq_buffer, batch_start_time, bq_inserted, bq_accepted,
                                   bq_rows>>
    /\ UNCHANGED <<f_pc, f_once, f_flush_calls, f_commit_calls>>
    /\ UNCHANGED <<w_pc, bq_client, now, w_calls, last_append>>
    /\ UNCHANGED <<a_pc, a_pending, w_flushes>>
    /\ UNCHANGED <<coordButProcessed, httpVars, batchVars, modelVars, rdVars>>

\* The gather of the batch is over: the explicit flush (line 180; flush_batch
\* catches its own failure), then back in run(), which reads the flag
\* (lines 217-222).
FanFlush ==
    /\ f_pc = "gather"
    /\ f_processed = DOMAIN f_tasks
    /\ f_flush_calls' = f_flush_calls + 1
    /\ \E ins \in InsertOutcomes :
        /\ ins = "ok" \/ (bq_client /\ bq_buffer # <<>>)
        /\ SetSink(flush_batch(TheSink, now, ins))
        /\ bq_rows' = flush_batch(TheSink, now, ins).rows
    /\ \E once \in BOOLEAN :
        /\ f_once' = once
        /\ f_pc' = IF once THEN "commit" ELSE "done"
    /\ UNCHANGED <<f_tasks, f_processed, f_commit_calls>>
    /\ UNCHANGED <<w_pc, bq_client, now, bq_accepted, w_calls, last_append>>
    /\ UNCHANGED <<a_pc, a_pending, w_flushes>>
    /\ UNCHANGED <<coordVars, httpVars, batchVars, modelVars, rdVars>>

\* consumer.commit() (line 223).
FanCommit ==
    /\ f_pc = "commit"
    /\ f_commit_calls' = f_commit_calls + 1
    /\ f_pc' = "done"
    /\ UNCHANGED <<f_once, f_tasks, f_processed, f_flush_calls>>
    /\ UNCHANGED notFanVars

\* No batch is being processed.
FanNew ==
    /\ f_pc = "idle"
    /\ f_once = TRUE
    /\ f_tasks = <<>>
    /\ f_processed = {}
    /\ f_flush_calls = 0
    /\ f_commit_calls = 0

----------------------------------------------------------------------------
(* EnrichedEngagementEvent built on its own *)

\* The values tried for duration_ms and length_seconds, and for what the
\* caller passes as engagement_seconds and engagement_pct.
DurationArgs ==
    {None} \cup {Some(d) : d \in (0..MaxDurationMs) \cup {-15, -5, 1234, 30000, 60000}}
LengthArgs ==
    {None} \cup {Some(l) : l \in (-1..MaxLengthSeconds) \cup {7, 120, 300}}
ComputedArgs == {None, Some(0), Some(4242)}

NoArgs == [duration_ms |-> None, length_seconds |-> None,
           engagement_seconds |-> None, engagement_pct |-> None]

\* EnrichedEngagementEvent(duration_ms=..., length_seconds=...,
\* engagement_seconds=..., engagement_pct=..., ...) is called, and the
\* warehouse record and the HTTP payload are built from the instance.
ModelBuild ==
    /\ m_event = None
    /\ \E d \in DurationArgs, l \in LengthArgs, vs \in ComputedArgs, vp \in ComputedArgs :
        /\ m_args' = [duration_ms |-> d, length_seconds |-> l,
                      engagement_seconds |-> vs, engagement_pct |-> vp]
        /\ m_event' = Some(computed_fields(d, l, vs, vp))
        /\ m_record' = Some(BigQueryRecord_from_enriched_event(computed_fields(d, l, vs, vp)))
        /\ m_payload' = Some(ExternalSystemPayload_from_enriched_event(computed_fields(d, l, vs, vp)))
    /\ UNCHANGED notModelVars

\* No instance has been built.
ModelNew ==
    /\ m_args = NoArgs
    /\ m_event = None
    /\ m_record = None
    /\ m_payload = None

----------------------------------------------------------------------------
(* The aggregation store: the Redis commands the sink issues *)

RecentTtl == 3600       \* expire(event_key, 3600), redis_sink.py line 102
EventTtl == 86400       \* expire(event_key, 86400), redis_sink.py line 196
StreamMaxLen == 1000    \* xadd(..., maxlen=1000), redis_sink.py line 98

top_content_key == "top_content_last_10min"
recent_key(c) == "recent_events:" \o c
stats_key(c) == "content_stats:" \o c
users_key(c) == stats_key(c) \o ":users"
window_key(c) == "content_window:" \o c \o ":10min"
meta_key(c) == "content_meta:" \o c
event_key(id) == "event:" \o ToString(id)

\* Writing val under key k: a new key has no TTL, an existing one keeps its own.
put(st, k, val) ==
    [kk \in DOMAIN st \cup {k} |->
        IF kk = k
        THEN [val |-> val, exp |-> IF k \in DOMAIN st THEN st[k].exp ELSE None]
        ELSE st[kk]]

del(st, k) == [kk \in DOMAIN st \ {k} |-> st[kk]]

\* The value under k, or `empty` when the key does not exist.
get(st, k, empty) == IF k \in DOMAIN st THEN st[k].val ELSE empty

\* EXPIRE k ttl at time t: no effect on a key that does not exist.
expire(st, k, ttl, t) ==
    IF k \in DOMAIN st THEN [st EXCEPT ![k].exp = Some(t + ttl)] ELSE st

\* XADD k MAXLEN n entry
xadd(st, k, entry, maxlen) ==
    LET es == Append(get(st, k, <<>>), entry) IN
    put(st, k, IF Len(es) > maxlen THEN Tail(es) ELSE es)

\* A hash is a record of its fields; the fields the sink reads with a
\* default of 0 are 0 in the empty hash.
EmptyStats == [total_events |-> 0, total_engagement_seconds |-> 0]

\* Mutant: the counter is set instead of incremented.
hincrby_total_events_set(st, k, n) ==
    put(st, k, [get(st, k, EmptyStats) EXCEPT !.total_events = n])

\* HINCRBY k total_events n
hincrby_total_events(st, k, n) ==
    put(st, k, [get(st, k, EmptyStats) EXCEPT !.total_events = @ + n])

\* HINCRBYFLOAT k total_engagement_seconds x (x in hundredths of a second)
hincrbyfloat_total_engagement_seconds(st, k, x) ==
    put(st, k, [get(st, k, EmptyStats) EXCEPT !.total_engagement_seconds = @ + x])

\* Mutant: the set is overwritten instead of added to.
sadd_overwrite(st, k, member) == put(st, k, {member})

\* SADD k member
sadd(st, k, member) == put(st, k, get(st, k, {}) \cup {member})

\* A sorted set is a set of [member, score] with one entry per member.
zscore_of(z, member) ==
    IF \E x \in z : x.member = member
    THEN Some((CHOOSE x \in z : x.member = member).score)
    ELSE None

\* ZADD k score member
zadd(st, k, member, score) ==
    put(st, k, {x \in get(st, k, {}) : x.member # member}
               \cup {[member |-> member, score |-> score]})

\* ZREMRANGEBYSCORE k -inf max: both ends are inclusive; a sorted set left
\* empty is removed by the store.
zremrangebyscore(st, k, max) ==
    IF k \notin DOMAIN st THEN st
    ELSE LET kept == {x \in st[k].val : x.score > max} IN
         IF kept = {} THEN del(st, k) ELSE put(st, k, kept)

\* ZINCRBY k increment member
zincrby(st, k, increment, member) ==
    LET old == zscore_of(get(st, k, {}), member) IN
    zadd(st, k, member, (IF old = None THEN 0 ELSE old[1]) + increment)

\* HSET k mapping
hset(st, k, mapping) == put(st, k, mapping)

\* Keys whose deadline has passed at time t are gone.
expired(st, t) ==
    [k \in {kk \in DOMAIN st : st[kk].exp = None \/ st[kk].exp[1] > t} |-> st[k]]

----------------------------------------------------------------------------
(* RedisSink *)

Contents == {"A", "B"}

\* An enriched event as the sink reads it; seconds in hundredths, percent
\* in hundredths of a percent.
RdEvent(id, content_id, user_id, event_type, duration_ms, length_seconds) ==
    [id |-> id, content_id |-> content_id, user_id |-> user_id,
     event_type |-> event_type,
     engagement_seconds |-> computed_fields(duration_ms, length_seconds, None, None).engagement_seconds,
     engagement_pct |-> computed_fields(duration_ms, length_seconds, None, None).engagement_pct]

\* The events dispatched to the sink: a finish at 100 % on A, a play at 0 %
\* on B, a click without duration on A.
RdEvents ==
    { RdEvent(1, "A", "u1", "finish", Some(300000), Some(300)),
      RdEvent(2, "B", "u2", "play", Some(0), Some(300)),
      RdEvent(3, "A", "u2", "click", None, None) }

\* Mutant: every event type weighs as a play.
base_scores_uniform(event_type) == 100

\* base_scores (lines 161-166), in hundredths.
base_scores(event_type) ==
    CASE event_type = "play" -> 100
      [] event_type = "pause" -> 50
      [] event_type = "finish" -> 300
      [] event_type = "click" -> 30
      [] OTHER -> 0

\* Mutant: the multiplier is not capped at 1.0.
_calculate_content_score_uncapped(event) ==
    IF truthy(event.engagement_pct)
    THEN base_scores(event.event_type) * (10000 + event.engagement_pct[1])
    ELSE base_scores(event.event_type) * 10000

\* Mutant: the engagement boost is left out.
_calculate_content_score_no_boost(event) == base_scores(event.event_type) * 10000

\* _calculate_content_score (lines 159-175), in millionths: the base in
\* hundredths times (1 + min(pct / 100, 1.0)) in ten-thousandths.
_calculate_content_score(event) ==
    IF truthy(event.engagement_pct)
    THEN base_scores(event.event_type) * (10000 + Min(event.engagement_pct[1], 10000))
    ELSE base_scores(event.event_type) * 10000

\* The groups of writes of process_event, by the position that makes them.
WriteAt(pos) ==
    CASE pos = 1 -> {"recent_events"}
      [] pos = 3 -> {"content_stats"}
      [] pos = 4 -> {"top_content"}
      [] pos = 5 -> {"content_meta"}
      [] pos = 7 -> {"event"}
      [] OTHER -> {}

\* _update_content_aggregations (lines 104-129): one MULTI/EXEC at time t.
_update_content_aggregations(st, event, t) ==
    LET ck == stats_key(event.content_id)
        uk == users_key(event.content_id)
        wk == window_key(event.content_id)
        window_start == t - aggregation_window_seconds
        s1 == hincrby_total_events(st, ck, 1)
        s2 == sadd(s1, uk, event.user_id)
        s3 == expire(s2, ck, aggregation_ttl_seconds, t)
        s4 == expire(s3, uk, aggregation_ttl_seconds, t)
        s5 == IF truthy(event.engagement_seconds)
              THEN hincrbyfloat_total_engagement_seconds(s4, ck, event.engagement_seconds[1])
              ELSE s4
        s6 == zadd(s5, wk, <<event.id, t>>, t)
        s7 == zremrangebyscore(s6, wk, window_start)
    IN  expire(s7, wk, aggregation_ttl_seconds, t)

\* The command (or transaction) process_event issues at position pos
\* (lines 62-78 and the helpers they call), at time t.
rd_command(st, event, pos, t) ==
    CASE pos = 1 -> xadd(st, recent_key(event.content_id), event.id, StreamMaxLen)
      [] pos = 2 -> expire(st, recent_key(event.content_id), RecentTtl, t)
      [] pos = 3 -> _update_content_aggregations(st, event, t)
      [] pos = 4 -> zincrby(st, top_content_key, _calculate_content_score(event), event.content_id)
      [] pos = 5 -> hset(st, meta_key(event.content_id), [last_updated |-> t])
      [] pos = 6 -> expire(st, meta_key(event.content_id), aggregation_ttl_seconds, t)
      [] pos = 7 -> hset(st, event_key(event.id), [content_id |-> event.content_id])
      [] pos = 8 -> expire(st, event_key(event.id), EventTtl, t)

\* Where process_event goes after the command at pos: _update_top_content
\* does nothing for a score that is not positive (line 138).
rd_next(event, pos) ==
    IF pos = 3 /\ ~(_calculate_content_score(event) > 0) THEN 7 ELSE pos + 1

\* _initialize_aggregation_keys (lines 54-60): zadd with an empty mapping
\* adds nothing (it raises in the client, or sends nothing that creates a
\* key), so the expire that follows finds no key.
_initialize_aggregation_keys(st, t) ==
    IF top_content_key \in DOMAIN st THEN st
    ELSE expire(st, top_content_key, aggregation_ttl_seconds, t)

\* initialize() (lines 29-52): the client is built, then ping and the key
\* initialisation, either of which may raise; the exception is re-raised
\* and leaves the client in place.
RdInitialize ==
    /\ r_pc = "new"
    /\ r_client' = TRUE
    /\ \E ping_ok \in BOOLEAN :
        r_store' = IF ping_ok THEN _initialize_aggregation_keys(r_store, r_now)
                   ELSE r_store
    /\ r_pc' = "ready"
    /\ UNCHANGED <<r_now, r_calls, r_done, r_expired>>
    /\ UNCHANGED notRdVars

\* process_event(event) is called (one task per survivor of a batch).
RdProcessEvent ==
    /\ r_client /\ Len(r_calls) < MaxRdCalls
    /\ \E ev \in RdEvents :
        r_calls' = Append(r_calls, [ev |-> ev, pos |-> 1, returned |-> FALSE,
                                    failed |-> FALSE, wrote |-> {}])
    /\ UNCHANGED <<r_pc, r_client, r_store, r_now, r_done, r_expired>>
    /\ UNCHANGED notRdVars

\* The commands that have raised so far (each ended its call).
Failures(calls) == Cardinality({i \in DOMAIN calls : calls[i].failed})

\* A call in flight issues its next command: it is applied, or it raises and
\* the except clause of process_event (lines 77-78) ends the call.
RdStep ==
    /\ \E i \in DOMAIN r_calls : \E ok \in BOOLEAN :
        LET c == r_calls[i]
            nxt == rd_next(c.ev, c.pos)
        IN  /\ ~c.returned
            /\ ok \/ Failures(r_calls) < MaxRdFailures
            /\ IF ok
               THEN /\ r_store' = rd_command(r_store, c.ev, c.pos, r_now)
                    /\ r_calls' = [r_calls EXCEPT ![i] =
                          [c EXCEPT !.pos = IF nxt > 8 THEN c.pos ELSE nxt,
                                    !.returned = nxt > 8,
                                    !.wrote = @ \cup WriteAt(c.pos)]]
               ELSE /\ r_store' = r_store
                    /\ r_calls' = [r_calls EXCEPT ![i] =
                          [c EXCEPT !.returned = TRUE, !.failed = TRUE]]
    /\ UNCHANGED <<r_pc, r_client, r_now, r_done, r_expired>>
    /\ UNCHANGED notRdVars

\* process_event run from position pos with no other task in between: the
\* commands up to the one that raises (fail_at; 0: none does).
RECURSIVE process_event_from(_, _, _, _, _, _)
process_event_from(st, event, pos, wrote, fail_at, t) ==
    IF pos > 8 THEN [store |-> st, wrote |-> wrote, failed |-> FALSE]
    ELSE IF pos = fail_at THEN [store |-> st, wrote |-> wrote, failed |-> TRUE]
    ELSE process_event_from(rd_command(st, event, pos, t), event, rd_next(event, pos),
                            wrote \cup WriteAt(pos), fail_at, t)

\* The calls made at once, and those of them that completed without error.
Made(done) == done["A"].made + done["B"].made
Completed(done) == done["A"].ok + done["B"].ok

\* process_event(event) called and run to its return, nothing else running
\* in between.
RdProcessEventAtOnce ==
    /\ r_client /\ Made(r_done) < MaxRdCalls
    /\ \E ev \in RdEvents : \E fail_at \in 0..8 :
        LET res == process_event_from(r_store, ev, 1, {}, fail_at, r_now) IN
        /\ fail_at \in {0, 1, 2, 3, 7, 8} \/ _calculate_content_score(ev) > 0
        /\ fail_at = 0 \/ Made(r_done) - Completed(r_done) < MaxRdFailures
        /\ r_store' = res.store
        /\ r_done' = [r_done EXCEPT ![ev.content_id] =
                         [made |-> @.made + 1,
                          ok |-> IF res.failed THEN @.ok ELSE @.ok + 1]]
    /\ UNCHANGED <<r_pc, r_client, r_now, r_calls, r_expired>>
    /\ UNCHANGED notRdVars

\* process_event(event) called and run to its return with no command
\* raising, nothing else running in between.
RdProcessEventOk ==
    /\ r_client /\ Made(r_done) < MaxRdWrites
    /\ \E ev \in RdEvents :
        LET res == process_event_from(r_store, ev, 1, {}, 0, r_now) IN
        /\ r_store' = res.store
        /\ r_done' = [r_done EXCEPT ![ev.content_id] =
                         [made |-> @.made + 1, ok |-> @.ok + 1]]
    /\ UNCHANGED <<r_pc, r_client, r_now, r_calls, r_expired>>
    /\ UNCHANGED notRdVars

\* The events tried one at a time: every event type with every duration_ms
\* >= 0 and length_seconds tried for the computed fields.
ScoredEvents ==
    { RdEvent(1, "A", "u1", ty, d, l) :
        ty \in EventTypes, d \in {x \in DurationArgs : x = None \/ x[1] >= 0},
        l \in LengthArgs }

\* process_event(event) called once on the empty leaderboard and run to its
\* return without a failure.
RdProcessOneEvent ==
    /\ r_client /\ r_calls = <<>>
    /\ \E ev \in ScoredEvents :
        LET res == process_event_from(r_store, ev, 1, {}, 0, r_now) IN
        /\ r_store' = res.store
        /\ r_calls' = <<[ev |-> ev, pos |-> 8, returned |-> TRUE,
                         failed |-> FALSE, wrote |-> res.wrote]>>
        /\ r_done' = [r_done EXCEPT ![ev.content_id] =
                         [made |-> @.made + 1, ok |-> @.ok + 1]]
    /\ UNCHANGED <<r_pc, r_client, r_now, r_expired>>
    /\ UNCHANGED notRdVars

\* A second passes; the store drops the keys whose deadline is reached.
RdTick ==
    /\ r_now < MaxRdClock
    /\ r_now' = r_now + 1
    /\ r_store' = expired(r_store, r_now + 1)
    /\ r_expired' = r_expired \cup (DOMAIN r_store \ DOMAIN expired(r_store, r_now + 1))
    /\ UNCHANGED <<r_pc, r_client, r_calls, r_done>>
    /\ UNCHANGED notRdVars

\* The keys a SCAN with the patterns of the cleanup can return.
WindowKeys == {window_key(c) : c \in Contents}
StatsKeys == {stats_key(c) : c \in Contents}
RecentKeys == {recent_key(c) : c \in Contents}
CleanupKeys ==
    StatsKeys \cup {users_key(c) : c \in Contents} \cup WindowKeys \cup RecentKeys

\* hlen / scard / zcard / xlen = 0 of the value under k, by the type of the
\* key (lines 306-316); a stored hash has at least the field that made it.
is_empty(st, k) ==
    IF k \in StatsKeys THEN FALSE
    ELSE IF k \in RecentKeys THEN st[k].val = <<>>
    ELSE st[k].val = {}

RECURSIVE trim_windows(_, _, _)
trim_windows(st, keys, cutoff) ==
    IF keys = {} THEN st
    ELSE LET k == CHOOSE kk \in keys : TRUE IN
         trim_windows(zremrangebyscore(st, k, cutoff), keys \ {k}, cutoff)

\* _cleanup_empty_keys (lines 300-319)
_cleanup_empty_keys(st) ==
    [k \in {kk \in DOMAIN st : ~(kk \in CleanupKeys /\ is_empty(st, kk))} |-> st[k]]

\* Mutant: the windows are trimmed up to the current time.
cleanup_expired_data_to_now(st, t) ==
    _cleanup_empty_keys(trim_windows(st, WindowKeys \cap DOMAIN st, t))

\* cleanup_expired_data (lines 276-298) at time t
cleanup_expired_data(st, t) ==
    _cleanup_empty_keys(
        trim_windows(st, WindowKeys \cap DOMAIN st, t - aggregation_window_seconds))

\* One run of the background cleanup (redis_cleanup_task, lines 329-341).
RdCleanup ==
    /\ r_client
    /\ r_store' = cleanup_expired_data(r_store, r_now)
    /\ UNCHANGED <<r_pc, r_client, r_now, r_calls, r_done, r_expired>>
    /\ UNCHANGED notRdVars

\* The members of a sorted set by decreasing score, equal scores by
\* decreasing member.
RECURSIVE by_score_desc(_)
by_score_desc(z) ==
    IF z = {} THEN <<>>
    ELSE LET top == CHOOSE x \in z : \A y \in z :
                        \/ y.score < x.score
                        \/ (y.score = x.score /\ (y.member = x.member \/ (y.member = "A" /\ x.member = "B")))
         IN  <<top>> \o by_score_desc(z \ {top})

\* ZREVRANGE k start stop: both ends are inclusive, and a negative index
\* counts from the end of the ranking (-1 is its last element).
zrevrange(z, start, stop) ==
    LET all == by_score_desc(z)
        from == IF start < 0 THEN Max(Len(all) + start, 0) ELSE start
        to == IF stop < 0 THEN Len(all) + stop ELSE Min(stop, Len(all) - 1)
    IN  SubSeq(all, from + 1, to + 1)

\* get_top_content(limit) (lines 198-233): the entries of the scoreboard
\* that have metadata, with their stats.
RECURSIVE with_metadata(_, _)
with_metadata(st, items) ==
    IF items = <<>> THEN <<>>
    ELSE LET c == Head(items).member IN
         (IF meta_key(c) \in DOMAIN st
          THEN <<[content_id |-> c, score |-> Head(items).score,
                  total_events |-> get(st, stats_key(c), EmptyStats).total_events,
                  unique_users |-> Cardinality(get(st, users_key(c), {})),
                  total_engagement_seconds |->
                      get(st, stats_key(c), EmptyStats).total_engagement_seconds]>>
          ELSE <<>>)
         \o with_metadata(st, Tail(items))

get_top_content(st, limit) ==
    with_metadata(st, zrevrange(get(st, top_content_key, {}), 0, limit - 1))

\* settings.redis.aggregation_window_minutes: a minute of the configuration
\* is one unit of the sink's clock.
aggregation_window_minutes == aggregation_window_seconds

\* ZCOUNT k min max: both ends are inclusive.
zcount(st, k, min, max) ==
    Cardinality({x \in get(st, k, {}) : min <= x.score /\ x.score <= max})

\* get_content_stats(content_id, window_minutes) (lines 235-258) at time t.
get_content_stats(st, content_id, window_minutes, t) ==
    LET content_key == stats_key(content_id)
        wkey == "content_window:" \o content_id \o ":" \o ToString(window_minutes) \o "min"
        window_start == t - window_minutes
    IN  [content_id |-> content_id,
         total_events |-> get(st, content_key, EmptyStats).total_events,
         unique_users |-> Cardinality(get(st, users_key(content_id), {})),
         total_engagement_seconds |->
             get(st, content_key, EmptyStats).total_engagement_seconds,
         events_in_window |-> zcount(st, wkey, window_start, t),
         window_minutes |-> window_minutes]

\* RedisSink.__init__, and an empty store.
RdNew ==
    /\ r_pc = "new"
    /\ r_client = FALSE
    /\ r_store = <<>>
    /\ r_now = 0
    /\ r_calls = <<>>
    /\ r_done = [c \in Contents |-> [made |-> 0, ok |-> 0]]
    /\ r_expired = {}

----------------------------------------------------------------------------
(* The coordinator's specification *)

\* The coordinator is not part of the run.
CoordOff ==
    /\ log = <<>>
    /\ mode = "off"
    /\ exactly_once = TRUE
    /\ pc = "off"
    /\ position = 0
    /\ committed = 0
    /\ message_pack = <<>>
    /\ batch_buffer = <<>>
    /\ crashed = FALSE
    /\ redis_got = <<>>
    /\ bq_got = <<>>
    /\ http_got = <<>>
    /\ handled = {}
    /\ store_down = {}
    /\ commit_batch = NoBatch
    /\ crash_batch = {}
    /\ processed_count = 0
    /\ error_count = 0
    /\ residual_got = <<>>
    /\ bf_start = 0
    /\ bf_end = 0
    /\ bf_limit = 1
    /\ bf_offset = 0

Init ==
    /\ HttpNew
    /\ WhNew
    /\ FanNew
    /\ ModelNew
    /\ RdNew
    /\ log \in [1..LogLen -> RawEvents]
    /\ mode \in {"stream", "backfill"}
    /\ exactly_once \in (IF mode = "stream" THEN BOOLEAN ELSE {TRUE})
    /\ pc = IF mode = "stream" THEN "poll" ELSE "page"
    /\ position = 0
    /\ committed = 0
    /\ message_pack = <<>>
    /\ batch_buffer = <<>>
    /\ crashed = FALSE
    /\ redis_got = [i \in 1..LogLen |-> 0]
    /\ bq_got = [i \in 1..LogLen |-> 0]
    /\ http_got = [i \in 1..LogLen |-> 0]
    /\ handled = {}
    /\ store_down = {}
    /\ commit_batch = NoBatch
    /\ crash_batch = {}
    /\ processed_count = 0
    /\ error_count = 0
    /\ residual_got = [i \in 1..LogLen |-> {}]
    /\ bf_start \in (IF mode = "backfill" THEN Dates ELSE {0})
    /\ bf_end \in (IF mode = "backfill" THEN Dates ELSE {0})
    /\ bf_limit \in (IF mode = "backfill" THEN 1..MaxPageSize ELSE {1})
    /\ bf_offset = 0

Next ==
    \/ PollRecords
    \/ PollEmpty
    \/ HandleMessage
    \/ Commit
    \/ CrashRestart
    \/ BackfillPage
    \/ BackfillEnd

Spec == Init /\ [][Next]_vars

\* The HTTP sink on its own.
NextHttp ==
    \/ HttpInitialize
    \/ SendEvent
    \/ HttpAttempt

InitHttp == CoordOff /\ HttpNew /\ WhNew /\ FanNew /\ ModelNew /\ RdNew

SpecHttp == InitHttp /\ [][NextHttp]_vars

\* One send_batch call on the HTTP sink; the event loop runs every
\* coroutine of the fallback to its end (the retries are bounded).
NextBatch ==
    \/ HttpInitialize
    \/ SendBatch
    \/ BatchSendAttempt
    \/ BatchReturn

InitBatch == CoordOff /\ HttpNew /\ WhNew /\ FanNew /\ ModelNew /\ RdNew

SpecBatch == InitBatch /\ [][NextBatch]_vars /\ WF_vars(NextBatch)

\* The warehouse sink on its own.
NextWarehouse ==
    \/ WhInitialize
    \/ WhAppend
    \/ WhFlush
    \/ Tick

InitWarehouse == CoordOff /\ HttpNew /\ WhNew /\ FanNew /\ ModelNew /\ RdNew

SpecWarehouse == InitWarehouse /\ [][NextWarehouse]_vars

\* The add_to_batch tasks of one batch on the warehouse sink, with the
\* flushes they trigger and the explicit flush of process_batch.
NextRace ==
    \/ WhInitialize
    \/ RaceProcessBatch
    \/ RaceAppend
    \/ RaceExplicitFlush
    \/ RaceInsertReturns
    \/ Tick

InitRace == CoordOff /\ HttpNew /\ WhNew /\ FanNew /\ ModelNew /\ RdNew

SpecRace == InitRace /\ [][NextRace]_vars

\* The fan-out of one batch on its own.  The event loop runs every task that
\* can run, and every sink coroutine ends (the HTTP retries are bounded).
NextFanout ==
    \/ WhInitialize
    \/ FanProcessBatch
    \/ FanTaskEnds
    \/ FanFlush
    \/ FanCommit

InitFanout == CoordOff /\ HttpNew /\ WhNew /\ FanNew /\ ModelNew /\ RdNew

SpecFanout == InitFanout /\ [][NextFanout]_vars /\ WF_vars(NextFanout)

\* The enriched-event model on its own.
NextModels ==
    \/ ModelBuild

InitModels == CoordOff /\ HttpNew /\ WhNew /\ FanNew /\ ModelNew /\ RdNew

SpecModels == InitModels /\ [][NextModels]_vars

\* The leaderboard sink on its own: the process_event tasks of a batch,
\* interleaved command by command.
NextRedis ==
    \/ RdInitialize
    \/ RdProcessEvent
    \/ RdStep

InitRedis == CoordOff /\ HttpNew /\ WhNew /\ FanNew /\ ModelNew /\ RdNew

SpecRedis == InitRedis /\ [][NextRedis]_vars

\* The leaderboard sink over time: events one at a time, the clock with the
\* TTL expiry of the store, and the background cleanup.
NextRedisTime ==
    \/ RdInitialize
    \/ RdProcessEventAtOnce
    \/ RdTick
    \/ RdCleanup

InitRedisTime == CoordOff /\ HttpNew /\ WhNew /\ FanNew /\ ModelNew /\ RdNew

SpecRedisTime == InitRedisTime /\ [][NextRedisTime]_vars

\* The leaderboard sink given one event.
NextScore ==
    \/ RdInitialize
    \/ RdProcessOneEvent

InitScore == CoordOff /\ HttpNew /\ WhNew /\ FanNew /\ ModelNew /\ RdNew

SpecScore == InitScore /\ [][NextScore]_vars

\* The window sets over time: events that are all written, the clock with
\* the TTL expiry of the store, and the background cleanup.
NextWindow ==
    \/ RdInitialize
    \/ RdProcessEventOk
    \/ RdTick
    \/ RdCleanup

InitWindow == CoordOff /\ HttpNew /\ WhNew /\ FanNew /\ ModelNew /\ RdNew

SpecWindow == InitWindow /\ [][NextWindow]_vars

\* The stream mode from start to shutdown.
NextShutdown ==
    \/ PollRecords
    \/ PollEmpty
    \/ HandleMessage
    \/ Commit
    \/ RunExit
    \/ MainCleanup

InitShutdown == Init /\ mode = "stream"

SpecShutdown == InitShutdown /\ [][NextShutdown]_vars

\* The backfill mode; the loop of backfill_date_range runs on until it
\* breaks.
NextBackfill ==
    \/ BackfillPage
    \/ BackfillEnd

InitBackfill == Init /\ mode = "backfill"

SpecBackfill == InitBackfill /\ [][NextBackfill]_vars /\ WF_vars(NextBackfill)

----------------------------------------------------------------------------
(* Vocabulary of the claims, stated on the raw events themselves *)

\* The schema rule of the raw event: known event_type, and a duration for
\* play, pause and finish.
MissingDuration(raw) == ~raw.has_duration \/ raw.duration_ms = None
Valid(raw) ==
    /\ raw.event_type \in {"play", "pause", "finish", "click"}
    /\ raw.event_type \in {"play", "pause", "finish"} => ~MissingDuration(raw)
Orphan(raw) == raw.content_id \notin DOMAIN content

Dispatched(i) == redis_got[i] > 0 /\ bq_got[i] > 0 /\ http_got[i] > 0
InSomeSink(i) == redis_got[i] > 0 \/ bq_got[i] > 0 \/ http_got[i] > 0

----------------------------------------------------------------------------
(* C1..C6: the coordinator *)

\* C1: every record below the committed position has been through
\* enrichment and, if it survived, through the three sinks; no record below
\* the committed position is still waiting in the polled message pack or in
\* the batch buffer.
C1_CommitNeverPassesUnprocessed ==
    \A i \in 1..committed :
        /\ i \notin Range(message_pack)
        /\ i \notin Range(batch_buffer)
        /\ i \in handled
        /\ (Valid(log[i]) /\ ~Orphan(log[i]) /\ i \notin store_down) => Dispatched(i)

\* C2: at-least-once under a single crash.  Once the consumer has consumed
\* the whole log and holds nothing (nothing more will ever be dispatched),
\* every valid, non-orphan record whose lookup never met an unreachable
\* store has reached the three sinks.
C2_AtLeastOnce ==
    (mode = "stream" /\ pc = "poll" /\ position = Len(log) /\ batch_buffer = <<>>)
    => \A i \in 1..Len(log) :
          (Valid(log[i]) /\ ~Orphan(log[i]) /\ i \notin store_down) => Dispatched(i)

\* C3: a batch whose enrichment found the content store unreachable is
\* aborted: the commit that follows it does not advance the offsets.
C3_StoreOutageAbortsBatch ==
    [][(pc = "commit" /\ commit_batch.outage) => committed' = committed]_vars

\* C4: on the live path a play, pause or finish event without duration_ms
\* (key absent, or null) reaches no sink.
C4_MissingDurationDropped ==
    mode = "stream" =>
        \A i \in 1..Len(log) :
            (log[i].event_type \in {"play", "pause", "finish"} /\ MissingDuration(log[i]))
            => ~InSomeSink(i)

\* C5: on the live path and on the backfill path, an event whose content_id
\* has no content row reaches no sink, and the other events that went
\* through the same batches or pages are still dispatched to the three sinks.
C5_OrphanDroppedRestProcessed ==
    /\ \A i \in 1..Len(log) : Orphan(log[i]) => ~InSomeSink(i)
    /\ \A i \in handled :
          (~Orphan(log[i]) /\ (mode = "stream" => Valid(log[i]) /\ i \notin store_down))
          => Dispatched(i)

\* An orphan and a dispatched event went through the same backfill page.
C5_Witness ==
    /\ mode = "backfill" /\ bf_offset = bf_limit /\ bf_limit > 1
    /\ \E i, j \in handled : Orphan(log[i]) /\ ~Orphan(log[j]) /\ Dispatched(j)

\* run() processing the batch buffer on a received record (lines 216-219).
BatchProcessedOnMessage ==
    pc = "pack" /\ batch_buffer' = <<>> /\ crashed' = crashed

\* C6: an orphan of the live stream reaches no sink; a batch processed on a
\* received record goes on to the commit whatever survived of it (also when
\* nothing did), and that commit covers every record of the batch.
C6_OrphanOffsetCommitted ==
    /\ [](\A i \in 1..Len(log) : (mode = "stream" /\ Orphan(log[i])) => ~InSomeSink(i))
    /\ [][(BatchProcessedOnMessage /\ exactly_once)
            => /\ pc' = "commit"
               /\ commit_batch'.events = Range(batch_buffer) \cup {Head(message_pack)}]_vars
    /\ [][(pc = "commit" /\ committed' # committed)
            => \A i \in commit_batch.events : i <= committed']_vars

\* A log of orphans only: its batch was processed and the commit covers it.
C6_Witness ==
    /\ mode = "stream" /\ pc = "poll" /\ committed = Len(log) /\ handled = 1..Len(log)
    /\ \A i \in 1..Len(log) : Orphan(log[i]) /\ ~InSomeSink(i)

----------------------------------------------------------------------------
(* C7, C8: the HTTP sink's retries *)

\* A POST that failed: a network error or a status outside 2xx.
PostFailed(r) == r = None \/ r[1] < 200 \/ r[1] > 299

\* A send_event call that made POSTs has ended.
CallEnded == h_pc = "idle" /\ responses # <<>>

\* C7: a call whose every POST failed made at most 3 POSTs, and slept at
\* least 4 seconds between its first and its last POST.
C7_BoundedRetriesWithBackoff ==
    (CallEnded /\ \A k \in DOMAIN responses : PostFailed(responses[k]))
    => (Len(responses) <= 3 /\ waited >= 4)

\* C8: a call whose first POST was answered with a non-success status (as
\* one whose first POST met a network error) went on to a second POST.
C8_RetryOnErrorStatus ==
    (CallEnded /\ PostFailed(responses[1])) => Len(responses) >= 2

----------------------------------------------------------------------------
(* C9, C10: the warehouse buffer *)

\* C9: a record leaves the buffer only through an insert that reported no
\* failure: every record ever appended is still buffered or was inserted.
C9_FailedFlushKeepsBuffer ==
    \A id \in bq_accepted : id \in Ids(bq_buffer) \/ id \in bq_inserted

\* C10: an append that leaves at least B records flushes; an append at which
\* the oldest buffered record is T seconds old or older flushes; an append
\* at which that record is younger than T and the buffer below B does not.
C10_FlushTrigger ==
    last_append # None =>
        LET a == last_append[1] IN
        /\ a.size >= bq_batch_size => a.flushed
        /\ a.oldest_age >= max_batch_time_seconds => a.flushed
        /\ (a.size < bq_batch_size /\ a.oldest_age < max_batch_time_seconds) => ~a.flushed

----------------------------------------------------------------------------
(* C11: the fan-out *)

\* C11: no sink task is ever cancelled; when process_batch goes on to the
\* flush, every sink has been invoked for every survivor and its coroutine
\* has ended (written, failed or raised); and whatever the sinks did, the
\* batch goes on to the warehouse flush and, with the flag set, the commit.
C11_SinkFailuresIsolated ==
    /\ [](\A e \in DOMAIN f_tasks : \A s \in Sinks : f_tasks[e][s] # "cancelled")
    /\ [](f_pc \in {"commit", "done"} =>
            \A e \in DOMAIN f_tasks : \A s \in Sinks :
                f_tasks[e][s] \in {"ok", "failed", "raised"})
    /\ (f_pc = "gather") ~> (f_pc = "done" /\ f_flush_calls = 1
                             /\ f_commit_calls = (IF f_once THEN 1 ELSE 0))

\* A batch of two went through to the commit although, for the same event,
\* the HTTP task raised and the leaderboard task failed, while the warehouse
\* task of that event and every task of the other event completed.
C11_Witness ==
    /\ f_pc = "done" /\ f_commit_calls = 1 /\ DOMAIN f_tasks = 1..2
    /\ f_tasks[1] = [s \in Sinks |-> IF s = "external" THEN "raised"
                                     ELSE IF s = "redis" THEN "failed" ELSE "ok"]
    /\ f_tasks[2] = [s \in Sinks |-> "ok"]

----------------------------------------------------------------------------
(* C15..C17: the computed fields of the enriched event *)

\* C15: engagement_pct is present exactly when duration_ms was given (so
\* engagement_seconds is present) and length_seconds is present and above
\* 0, whatever the caller passed for the two computed fields.
C15_PctPresentIff ==
    m_event # None =>
        /\ (m_event[1].engagement_seconds # None) <=> (m_args.duration_ms # None)
        /\ (m_event[1].engagement_pct # None)
             <=> /\ m_args.duration_ms # None
                 /\ m_args.length_seconds # None
                 /\ m_args.length_seconds[1] > 0

\* Built with a duration and no usable length while the caller passed a
\* percentage: the percentage is absent.
C15_Witness ==
    /\ m_event # None /\ m_args.duration_ms = Some(30000)
    /\ m_args.length_seconds = Some(0) /\ m_args.engagement_pct = Some(4242)
    /\ m_event[1].engagement_seconds = Some(3000) /\ m_event[1].engagement_pct = None

\* x (in units of the kept digit) is num / den rounded to the kept digit: no
\* value with that many digits is nearer to the quotient.
Nearest(x, num, den) ==
    LET diff == x * den - num IN 2 * diff <= den /\ 2 * diff >= 0 - den

\* C16: with duration_ms present and length_seconds > 0, engagement_seconds
\* is duration_ms / 1000 rounded to two decimals and engagement_pct is
\* engagement_seconds / length_seconds * 100 rounded to two decimals;
\* 30000 ms over 120 s gives 30.00 and 25.00, 60000 ms over 300 s gives
\* 60.00 and 20.00.
C16_PctFormula ==
    (/\ m_event # None /\ m_args.duration_ms # None
     /\ m_args.length_seconds # None /\ m_args.length_seconds[1] > 0)
    => LET d  == m_args.duration_ms[1]
           l  == m_args.length_seconds[1]
           es == m_event[1].engagement_seconds[1]
           pct == m_event[1].engagement_pct[1]
       IN  /\ Nearest(es, d, 10)
           /\ Nearest(pct, es * 100, l)
           /\ (d = 30000 /\ l = 120) => (es = 3000 /\ pct = 2500)
           /\ (d = 60000 /\ l = 300) => (es = 6000 /\ pct = 2000)

\* 1234 ms over 7 s: 1.23 s and 17.57 % (17.5714... rounded).
C16_Witness ==
    /\ m_event # None /\ m_args.duration_ms = Some(1234) /\ m_args.length_seconds = Some(7)
    /\ m_event[1].engagement_seconds = Some(123) /\ m_event[1].engagement_pct = Some(1757)

\* C17: a duration whose value in seconds lies exactly halfway between two
\* hundredths (duration_ms = 5 mod 10) is rounded up to the next hundredth:
\* 5 ms gives 0.01, 25 ms gives 0.03.
C17_HalfAwayFromZero ==
    (m_event # None /\ m_args.duration_ms # None
     /\ m_args.duration_ms[1] >= 0 /\ m_args.duration_ms[1] % 10 = 5)
    => m_event[1].engagement_seconds = Some(m_args.duration_ms[1] \div 10 + 1)

----------------------------------------------------------------------------
(* C12, C13: the leaderboard writes of concurrent events *)

\* The leaderboard writes an event is to make: the scoreboard and the
\* metadata only for a positive score.
LeaderboardWrites(event) ==
    {"recent_events", "content_stats"}
    \cup (IF _calculate_content_score(event) > 0
          THEN {"top_content", "content_meta"} ELSE {})

\* C12: when process_event has returned, with or without a failure, all of
\* the event's leaderboard writes (stream append, counters with user set and
\* window entry, scoreboard increment, metadata refresh) were applied, or
\* none.
C12_EventWritesAtomic ==
    \A i \in DOMAIN r_calls :
        r_calls[i].returned =>
            LET w == r_calls[i].wrote \ {"event"} IN
            w = {} \/ w = LeaderboardWrites(r_calls[i].ev)

ScoreOf(c) == zscore_of(get(r_store, top_content_key, {}), c)

\* The calls made for the event with this id.
CallsOf(id) == {i \in DOMAIN r_calls : r_calls[i].ev.id = id}

RECURSIVE SumScores(_, _)
SumScores(calls, c) ==
    IF calls = <<>> THEN 0
    ELSE (IF Head(calls).ev.content_id = c
          THEN _calculate_content_score(Head(calls).ev) ELSE 0)
         + SumScores(Tail(calls), c)

AllReturnedWithoutFailure ==
    /\ r_calls # <<>>
    /\ \A i \in DOMAIN r_calls : r_calls[i].returned /\ ~r_calls[i].failed

\* C13: on a leaderboard that was empty, once the concurrent process_event
\* calls have all returned without failure, each content's score is the sum
\* of the scores of its events whatever the interleaving was; when the
\* events were a finishes at 100 % on A and b plays at 0 % on B only, A holds
\* 6.0 * a and B holds 1.0 * b (60.0 and 5.0 for a = 10, b = 5), and
\* get_top_content(2) returns A then B with these scores.
C13_TopNInterleaving ==
    AllReturnedWithoutFailure =>
        /\ \A c \in Contents :
              ScoreOf(c) = IF SumScores(r_calls, c) = 0 THEN None
                           ELSE Some(SumScores(r_calls, c))
        /\ (CallsOf(3) = {} /\ CallsOf(1) # {} /\ CallsOf(2) # {}) =>
              LET top == get_top_content(r_store, 2) IN
              /\ Len(top) = 2
              /\ top[1].content_id = "A"
              /\ top[1].score = 6000000 * Cardinality(CallsOf(1))
              /\ top[2].content_id = "B"
              /\ top[2].score = 1000000 * Cardinality(CallsOf(2))

\* A finish on A and a play on B were written concurrently; the top 2 is
\* A (6.0) then B (1.0).
C13_Witness ==
    /\ AllReturnedWithoutFailure
    /\ CallsOf(1) # {} /\ CallsOf(2) # {}
    /\ Len(get_top_content(r_store, 2)) = 2
    /\ get_top_content(r_store, 2)[1].content_id = "A"
    /\ get_top_content(r_store, 2)[1].score = 6000000
    /\ get_top_content(r_store, 2)[2].score = 1000000

----------------------------------------------------------------------------
(* C18..C20: the leaderboard over time *)

TotalEvents(st, c) == get(st, stats_key(c), EmptyStats).total_events

\* What C18 says of content c.
CountedFor(c) ==
    /\ TotalEvents(r_store, c) >= r_done[c].ok
    /\ (Made(r_done) = Completed(r_done)) => TotalEvents(r_store, c) = r_done[c].made

\* C18 as stated: total_events of C is at least the number of process_event
\* calls for C that completed without error, and equals the number of events
\* processed for C when no leaderboard operation failed.
C18_TotalEventsCounts ==
    \A c \in Contents : CountedFor(c)

\* C18 amended: the same, as long as content_stats:C has not been dropped at
\* its TTL deadline.
C18_TotalEventsCountsUntilExpiry ==
    \A c \in Contents : stats_key(c) \notin r_expired => CountedFor(c)

\* Two calls for A, one of which failed after its counters were written:
\* total_events is 2, above the one call that completed without error.
C18_Witness ==
    /\ r_done["A"] = [made |-> 2, ok |-> 1]
    /\ stats_key("A") \notin r_expired
    /\ TotalEvents(r_store, "A") = 2

\* The key k is dropped by this step at its TTL deadline.
ExpiresNow(k) ==
    /\ k \in DOMAIN r_store /\ k \notin DOMAIN r_store'
    /\ r_store[k].exp # None /\ r_store[k].exp[1] <= r_now'

AggregationKeys ==
    StatsKeys \cup {users_key(c) : c \in Contents} \cup WindowKeys
    \cup {meta_key(c) : c \in Contents} \cup {top_content_key}

\* C20: between process_event calls, every aggregation key that exists
\* carries a TTL (the scoreboard key never exists without one), and a call
\* that completes without error leaves each key it wrote with the configured
\* aggregation TTL counted from the write.
C20_KeysCarryTtl ==
    /\ [](\A k \in AggregationKeys \cap DOMAIN r_store :
            (Made(r_done) = Completed(r_done)) => r_store[k].exp # None)
    /\ [][\A k \in AggregationKeys \cap DOMAIN r_store' :
            (Completed(r_done') > Completed(r_done)
             /\ (k \notin DOMAIN r_store \/ r_store'[k].val # r_store[k].val))
            => r_store'[k].exp = Some(r_now + aggregation_ttl_seconds)]_vars

----------------------------------------------------------------------------
(* C14: duplicates after a crash before the commit *)

\* C14: the process crashed after a batch was dispatched and flushed and
\* before its commit.  Once the restarted consumer has consumed the log and
\* holds nothing, with the store reachable throughout, every survivor of
\* that batch has been handed to the warehouse exactly twice and to the
\* leaderboard exactly twice (2k rows, counters doubled).
C14_CrashDoublesBatch ==
    (/\ mode = "stream" /\ crashed /\ pc = "poll"
     /\ position = Len(log) /\ batch_buffer = <<>> /\ store_down = {})
    => \A i \in crash_batch : bq_got[i] = 2 /\ redis_got[i] = 2

----------------------------------------------------------------------------
(* C21, C22, C30: the window set and the score of one event *)

\* The entries of c's window set that are within the window at time t.
InWindow(st, c, t) ==
    {x \in get(st, window_key(c), {}) : x.score > t - aggregation_window_seconds}

\* The contents all of whose events are the same event (same id).
OneEvent(c) == Cardinality({e \in RdEvents : e.content_id = c}) = 1

\* C21: applying an event again within the window adds no entry to the
\* window set (at most one entry within the window per event id), while
\* total_events counts every application: for a content that was only ever
\* sent one event, total_events is the number of applications.
C21_WindowIdempotent ==
    \A c \in Contents :
        /\ \A x, y \in InWindow(r_store, c, r_now) :
              x.member[1] = y.member[1] => x = y
        /\ (OneEvent(c) /\ stats_key(c) \notin r_expired
             /\ Made(r_done) = Completed(r_done))
            => TotalEvents(r_store, c) = r_done[c].made

\* The base of an event type and the increment of one event, as C22 states
\* them, in millionths (engagement_pct in hundredths of a percent).
ClaimedBase(event_type) ==
    CASE event_type = "play" -> 1000000
      [] event_type = "pause" -> 500000
      [] event_type = "finish" -> 3000000
      [] event_type = "click" -> 300000

ClaimedIncrement(event) ==
    IF event.engagement_pct # None
    THEN (ClaimedBase(event.event_type) \div 10000)
         * (10000 + Min(event.engagement_pct[1], 10000))
    ELSE ClaimedBase(event.event_type)

\* C22: after one event was processed on the empty leaderboard, the score of
\* its content is base * (1 + min(engagement_pct / 100, 1.0)) when
\* engagement_pct is present and base otherwise; a finish at 20.00 % has
\* added 3.60 and a click without engagement fields 0.3.
C22_ScoreIncrement ==
    (Len(r_calls) = 1 /\ AllReturnedWithoutFailure) =>
        LET ev == r_calls[1].ev IN
        /\ ScoreOf(ev.content_id) = Some(ClaimedIncrement(ev))
        /\ (ev.event_type = "finish" /\ ev.engagement_pct = Some(2000))
              => ScoreOf(ev.content_id) = Some(3600000)
        /\ (ev.event_type = "click" /\ ev.engagement_pct = None)
              => ScoreOf(ev.content_id) = Some(300000)

\* A finish at 20.00 % was processed and has added 3.60.
C22_Witness ==
    /\ Len(r_calls) = 1 /\ AllReturnedWithoutFailure
    /\ r_calls[1].ev.event_type = "finish"
    /\ r_calls[1].ev.engagement_pct = Some(2000)
    /\ ScoreOf("A") = Some(3600000)

\* C30: with the window configured to W, get_content_stats(C, W) reports as
\* events_in_window the number of window entries written for C in the last
\* W minutes: every entry the writer's key holds within the window is
\* counted, and nothing older than the window is.
C30_ReaderCountsWriterWindow ==
    \A c \in Contents :
        LET stats == get_content_stats(r_store, c, aggregation_window_minutes, r_now) IN
        /\ stats.events_in_window >= Cardinality(InWindow(r_store, c, r_now))
        /\ stats.events_in_window
             <= zcount(r_store, window_key(c), r_now - aggregation_window_minutes, r_now)

----------------------------------------------------------------------------
(* C28: the warehouse record and the HTTP payload *)

\* C28: the warehouse record and the HTTP payload built from an enriched
\* event carry its engagement_seconds and engagement_pct, null exactly for a
\* field the event does not have (duration_ms = 0 gives engagement_seconds
\* 0, not null).
C28_RecordCarriesEngagement ==
    m_event # None =>
        /\ m_record[1].engagement_seconds = m_event[1].engagement_seconds
        /\ m_record[1].engagement_pct = m_event[1].engagement_pct
        /\ m_payload[1].engagement_seconds = m_event[1].engagement_seconds
        /\ m_payload[1].engagement_pct = m_event[1].engagement_pct

----------------------------------------------------------------------------
(* C24: the HTTP sink after a failed health check *)

\* C24: when the endpoint was unreachable at the initialisation of the HTTP
\* sink, no send_event makes a POST attempt afterwards: each call returns
\* at once.
C24_UnreachableMeansNoOp ==
    (h_pc # "new" /\ ~h_reachable) =>
        /\ responses = <<>>
        /\ sent_count = 0 /\ h_error_count = 0

----------------------------------------------------------------------------
(* C29: validation drops and the error count *)

\* The records enrich_event was called on that the validation rejected.
DroppedByValidation == {i \in handled : EngagementEventModel(i, log[i]) = None}

\* C29: as long as the process has not been restarted, error_count is at
\* least the number of raw events dropped by validation, and the records
\* that went through the same batches and enrich are dispatched.
C29_DropCountsAsError ==
    (mode = "stream" /\ ~crashed) =>
        /\ error_count >= Cardinality(DroppedByValidation)
        /\ \A i \in handled :
              (EngagementEventModel(i, log[i]) # None /\ ~Orphan(log[i])
               /\ i \notin store_down) => Dispatched(i)

----------------------------------------------------------------------------
(* C25: shutdown in stream mode *)

\* C25: once run() has ended and main's cleanup has run, each record that
\* was left in the batch buffer was dispatched by the first cleanup, before
\* the sinks were closed, if it enriches, and by no later one: not twice,
\* and not to closed sinks.
C25_ResidualDispatchedOnce ==
    pc = "stopped" =>
        \A i \in Range(batch_buffer) :
            /\ residual_got[i] \subseteq {"run"}
            /\ (enrich_event(i, log[i], TRUE) # None /\ i \notin store_down)
                 => residual_got[i] = {"run"}

----------------------------------------------------------------------------
(* C26, C27: the backfill over LIMIT / OFFSET pages *)

\* The rows the backfill is to replay: in range, with a content row.
Replayed(i) == InRange(i) /\ ~Orphan(log[i])

\* C26: when the backfill has ended, each row of [start, end) that has a
\* content row was dispatched to the three sinks exactly once, and no other
\* row was dispatched, whatever the page size and the order of the rows that
\* share an event_ts.
C26_BackfillEachRowOnce ==
    (mode = "backfill" /\ pc = "exited") =>
        \A i \in 1..Len(log) :
            LET n == IF Replayed(i) THEN 1 ELSE 0 IN
            redis_got[i] = n /\ bq_got[i] = n /\ http_got[i] = n

\* The rows of [start, end).
RowsInRange == {i \in 1..Len(log) : InRange(i)}

\* C27: the backfill terminates: every non-empty page, also one none of
\* whose rows converted, moves the offset on by the page size; the loop
\* ends only on an empty page; and it does end, cleanup included.
C27_BackfillTerminates ==
    /\ [][(pc = "page" /\ pc' = "page") => bf_offset' = bf_offset + bf_limit]_vars
    /\ [][(pc = "page" /\ pc' = "exited")
            => bf_offset >= Cardinality(RowsInRange)]_vars
    /\ (mode = "backfill") ~> (pc = "exited")

\* The backfill has ended after a page of one row that did not convert.
C27_Witness ==
    /\ mode = "backfill" /\ pc = "exited"
    /\ bf_limit = 1 /\ bf_offset >= 2
    /\ \E i \in handled : Orphan(log[i])

----------------------------------------------------------------------------
(* C23: the pipeline with the warehouse client unavailable *)

\* C23: with the warehouse client unavailable after initialisation, the
\* warehouse buffer stays empty and nothing is inserted, error_count stays
\* 0, and the batch is carried through: when its fan-out is over, the
\* leaderboard and the HTTP coroutine have run for every event and
\* processed_count is the number of events.
C23_WarehouseDegraded ==
    /\ []((w_pc = "ready" /\ ~bq_client) =>
            /\ bq_buffer = <<>> /\ bq_accepted = {} /\ bq_inserted = {}
            /\ error_count = 0
            /\ (f_pc \in {"commit", "done"} =>
                  /\ processed_count = Len(f_tasks)
                  /\ \A e \in DOMAIN f_tasks :
                        /\ f_tasks[e]["redis"] \in {"ok", "failed"}
                        /\ f_tasks[e]["external"] \in {"ok", "failed", "raised"}))
    /\ ((w_pc = "ready" /\ ~bq_client /\ f_pc = "gather") ~> (f_pc = "done"))

\* Two events went through the pipeline without a warehouse client.
C23_Witness ==
    /\ w_pc = "ready" /\ ~bq_client
    /\ f_pc = "done" /\ Len(f_tasks) = 2
    /\ processed_count = 2 /\ error_count = 0 /\ bq_buffer = <<>>

----------------------------------------------------------------------------
(* C31: the top-N read *)

\* The entries of the scoreboard.
Scoreboard == get(r_store, top_content_key, {})

\* C31: get_top_content(limit) returns min(limit, number of contents in the
\* scoreboard) entries, in non-increasing score order, and every content of
\* the scoreboard that is not returned scores no higher than those returned.
C31_TopNComplete ==
    \A limit \in 1..MaxLimit :
        LET top == get_top_content(r_store, limit)
            ids == {top[i].content_id : i \in DOMAIN top}
        IN  /\ Len(top) = Min(limit, Cardinality(Scoreboard))
            /\ \A i, j \in DOMAIN top : i < j => top[i].score >= top[j].score
            /\ \A x \in Scoreboard : x.member \notin ids =>
                  \A i \in DOMAIN top : top[i].score >= x.score

----------------------------------------------------------------------------
(* C32: the commit after each batch *)

\* This step has run process_batch on a batch that was not empty.
ProcessesBatch == handled' # handled \/ processed_count' > processed_count

\* C32: with the exactly-once flag set, a step that processes a batch (on
\* the buffer size, on the interval with a received record, on the idle
\* path, or the residual batch at shutdown) goes on to the offset commit
\* before anything else.
C32_CommitAfterEveryBatch ==
    [][(mode = "stream" /\ exactly_once /\ ProcessesBatch) => pc' = "commit"]_vars

----------------------------------------------------------------------------
(* C33, C37: the cutoff of the window set and the frame of the cleanup *)

\* The entries of c's window set in a store.
Window(st, c) == get(st, window_key(c), {})

\* This step has applied the aggregation transaction of an event for c.
WritesWindow(c) == TotalEvents(r_store', c) > TotalEvents(r_store, c)

\* C33: a leaderboard write at time now, and a run of the cleanup at time
\* now, trim from the window set only the entries scored strictly below
\* now - W: an entry scored now - W or later is retained, and after a write
\* no entry scored below now - W is left.
C33_WindowCutoff ==
    [][r_now' = r_now =>
        \A c \in Contents :
            /\ \A x \in Window(r_store, c) :
                  x.score >= r_now - aggregation_window_seconds
                      => x \in Window(r_store', c)
            /\ WritesWindow(c) =>
                  \A x \in Window(r_store', c) :
                      x.score >= r_now - aggregation_window_seconds
      ]_vars

----------------------------------------------------------------------------
(* C34: the statuses send_event takes as success *)

\* This step is a POST of send_event answered with a 2xx status.
Answered2xx ==
    /\ h_pc = "attempt" /\ Len(responses') = Len(responses) + 1
    /\ responses'[Len(responses')] # None
    /\ responses'[Len(responses')][1] \in 200..299

\* C34: a POST of send_event answered with any status of 200..299 (204
\* included) adds one to sent_count and leaves error_count as it is.
C34_Every2xxSucceeds ==
    [][Answered2xx =>
        /\ sent_count' = sent_count + 1
        /\ h_error_count' = h_error_count]_vars

----------------------------------------------------------------------------
(* C35: send_batch and its fallback *)

\* The batch POST was answered with a status send_batch takes as success.
BatchSucceeded == b_posts # <<>> /\ b_posts[1] # None /\ status_ok(b_posts[1][1])

\* The POSTs made by the individual sends of the fallback.
RECURSIVE PostsMade(_)
PostsMade(sends) ==
    IF sends = <<>> THEN 0 ELSE Head(sends).posts + PostsMade(Tail(sends))

----------------------------------------------------------------------------
(* C36: the backfill and the committed offsets *)

\* C36: no step of a backfill run, its cleanup included, changes the
\* committed offsets of the consumer group.
C36_BackfillNeverCommits ==
    [][mode = "backfill" => committed' = committed]_vars

\* A backfill has dispatched rows over more than one page and ended, cleanup
\* included, with the committed offsets where they were.
C36_Witness ==
    /\ mode = "backfill" /\ pc = "exited" /\ bf_offset > bf_limit
    /\ \E i \in 1..Len(log) : Dispatched(i)
    /\ committed = 0

\* This step is a run of the background cleanup (the only step that leaves
\* the clock, the calls and the sink's state as they are).
CleanupStep ==
    /\ r_store' # r_store
    /\ r_now' = r_now /\ r_done' = r_done /\ r_calls' = r_calls /\ r_pc' = r_pc

\* C37: a run of cleanup_expired_data removes from the window sets only
\* entries scored at or below now - W, and deletes only keys left empty:
\* every other key (content_stats counters, user sets, the scoreboard,
\* content_meta, the recent-events streams) is left as it is, and no window
\* entry younger than the window is removed.
C37_CleanupFrame ==
    [][CleanupStep =>
        /\ DOMAIN r_store' \subseteq DOMAIN r_store
        /\ \A k \in DOMAIN r_store \ WindowKeys :
              k \in DOMAIN r_store' /\ r_store'[k] = r_store[k]
        /\ \A c \in Contents :
              /\ Window(r_store', c) \subseteq Window(r_store, c)
              /\ \A x \in Window(r_store, c) \ Window(r_store', c) :
                    x.score <= r_now - aggregation_window_seconds
              /\ (window_key(c) \in DOMAIN r_store /\ Window(r_store', c) # {})
                    => window_key(c) \in DOMAIN r_store'
      ]_vars

\* The cleanup has trimmed the older of the two window entries of B and
\* left B's counters, user set, score and metadata as they were.
C37_Witness ==
    /\ r_now = 2
    /\ Window(r_store, "B") = {[member |-> <<2, 1>>, score |-> 1]}
    /\ TotalEvents(r_store, "B") = 2
    /\ get(r_store, users_key("B"), {}) = {"u2"}
    /\ ScoreOf("B") = Some(2000000)
    /\ meta_key("B") \in DOMAIN r_store

----------------------------------------------------------------------------
(* C38: the add_to_batch tasks of a batch against the flushes *)

\* C38: whatever the order in which the add_to_batch tasks of a batch run,
\* with the flushes they trigger by size or by age and the explicit flush
\* of process_batch, every record that was appended and is no longer in the
\* buffer was among the rows of an insert call: no flush clears a record
\* appended after it built its rows.
C38_NoRecordClearedUnsent ==
    \A id \in bq_accepted : id \notin Ids(bq_buffer) => id \in bq_rows

\* Three tasks: a flush was triggered by the second append, the third
\* record went out with the explicit flush, and all three were rows of an
\* insert.
C38_Witness ==
    /\ a_pc = "flushed" /\ bq_accepted = 1..3 /\ bq_buffer = <<>>
    /\ bq_rows = 1..3 /\ bq_inserted = 1..3

----------------------------------------------------------------------------
(* C39: the commit and the warehouse buffer *)

\* The commit of the batch is being made, or was made.
AtCommit == f_pc = "commit" \/ f_commit_calls > 0

\* C39: when the offsets of a batch are committed, the explicit flush has
\* been called, and the warehouse record of every survivor has been handed
\* to an insert call (it is still in the buffer only when that insert
\* raised): no record is in the buffer without a flush attempted for it.
\* A sink with a client has taken a record for every survivor.
C39_FlushBeforeCommit ==
    AtCommit =>
        /\ f_flush_calls >= 1
        /\ bq_client => bq_accepted = DOMAIN f_tasks
        /\ \A e \in bq_accepted : e \in bq_rows
        /\ Ids(bq_buffer) \subseteq bq_rows

\* The commit of a batch of two was made with both records still in the
\* buffer, after the inserts they were handed to had raised.
C39_Witness ==
    /\ f_pc = "done" /\ f_commit_calls = 1 /\ bq_client
    /\ DOMAIN f_tasks = 1..2
    /\ Ids(bq_buffer) = {1, 2} /\ bq_rows = {1, 2} /\ bq_inserted = {}

----------------------------------------------------------------------------
(* C40: the bounds of the per-event score *)

\* C40: for an event of a valid type with duration_ms >= 0 (or none), the
\* score lies between the base of its type and twice that base, however far
\* engagement_pct is above 100, so it is above 0; processed on its own
\* without a failure, the event has its score in the scoreboard and its
\* content_meta written.
C40_ScoreWithinBounds ==
    (Len(r_calls) = 1 /\ AllReturnedWithoutFailure) =>
        LET ev == r_calls[1].ev
            score == _calculate_content_score(ev)
        IN  /\ ClaimedBase(ev.event_type) <= score
            /\ score <= 2 * ClaimedBase(ev.event_type)
            /\ score > 0
            /\ ScoreOf(ev.content_id) = Some(score)
            /\ meta_key(ev.content_id) \in DOMAIN r_store
            /\ {"top_content", "content_meta"} \subseteq r_calls[1].wrote

\* A finish of 60 s on a content of 1 s (engagement_pct 6000.00) was
\* processed and has scored twice the base, 6.0.
C40_Witness ==
    /\ Len(r_calls) = 1 /\ AllReturnedWithoutFailure
    /\ r_calls[1].ev.event_type = "finish"
    /\ r_calls[1].ev.engagement_pct = Some(600000)
    /\ ScoreOf("A") = Some(6000000)
    /\ meta_key("A") \in DOMAIN r_store

====
